---- MODULE Spec2Model ----
(***************************************************************************)
(* Model of the tiered frame cache of lunaris_api (src/render/cache.rs)    *)
(* and of the parts of the image layer (src/render/image.rs) that a move   *)
(* between tiers goes through.                                             *)
(*                                                                         *)
(* The three DashMaps low, med and high are functions from entity ids to   *)
(* entries [tok, img].  promote and demote are whole calls; update() is    *)
(* entered, then runs one loop iteration per step, and returns from the    *)
(* iteration that breaks or fails.  Calls do not interleave in Spec: a     *)
(* promote or demote is only called while no update() is running.          *)
(*                                                                         *)
(* In the cache specifications the process-wide DEVICE and QUEUE are      *)
(* taken as set (render/mod.rs:15 requires init_gpu before any render      *)
(* helper is used), and every texture held in high is one that             *)
(* From<&RawImage> for Texture creates, so the upload and the readback of  *)
(* a med <-> high move succeed.                                            *)
(*                                                                         *)
(* SpecAgain and SpecFail run update() calls alone and record what each    *)
(* call did.  SpecConc and SpecMoves run the calls from two threads, one   *)
(* DashMap access per step.  SpecGpu runs init_gpu (src/render/mod.rs)     *)
(* from several callers, one OnceLock::set per step.  SpecTouch runs       *)
(* AccessToken::increment from several threads, one clock reading or       *)
(* atomic access per step, with touched_freq kept as a 32-bit counter.     *)
(*                                                                         *)
(* SpecConverge runs update() calls from three entries in med, SpecEmpty   *)
(* and FairEmpty the public operations from a cache that was just built.   *)
(* SpecRace and FairRace run two update() calls at once, with the          *)
(* snapshots of an iteration taken one step before its lengths are read.   *)
(*                                                                         *)
(* SpecElapsed, SpecImage and SpecReadback evaluate functions that read    *)
(* nothing of the cache: score() over elapsed times beyond 32 bits, the    *)
(* functions of RawImage and CompressedImage byte by byte, and the upload  *)
(* of an image followed by its readback.  Widths, heights and byte counts  *)
(* are written in base-256 digits there, so that the 64-bit products of    *)
(* the length computations are exact.                                      *)
(***************************************************************************)
EXTENDS Integers, FiniteSets, Sequences, TLC

\* ------------------------------------------------------------------ bounds
NumEntities == 3
MaxCap == 2
MaxFreq == 2
MaxNow == 1
NumCallers == 4
MaxTouches == 2
MaxConcHeld == 2

Entities == 1..NumEntities
NoEntity == 0

VARIABLES
    capacity,   \* TieredCache.capacity: <<low, med, high>>
    low,        \* TieredCache.low:  entity -> [tok, img] (CompressedImage)
    med,        \* TieredCache.med:  entity -> [tok, img] (RawImage)
    high,       \* TieredCache.high: entity -> [tok, img] (Texture)
    now,        \* the clock that Instant::elapsed() reads, in ms
    pc,         \* "idle", or "loop" while an update() call is in its loop
    ret,        \* the call that returned last: [op, id, res]
    step,       \* the last loop iteration of update(): [op, id, snap, at]
    hist,       \* which calls the running update() has made so far
    again,      \* the call before the running update() was an Ok update()
    moved,      \* the running update() has completed a move
    th,         \* concurrent callers of the cache: thread -> its call
    held0,      \* the entities the cache held when the threads started
    evicted,    \* the entities a demote has found in low and removed
    DEVICE,     \* render::DEVICE, a OnceLock: NoGpu or the device stored
    QUEUE,      \* render::QUEUE, a OnceLock: NoGpu or the queue stored
    gpu,        \* callers of init_gpu: caller -> [pc, res]
    token,      \* one AccessToken: [last_touched, touched_freq]
    tch,        \* threads that touch `token`: thread -> [pc, at]
    eval        \* a call of a function of the image layer: [fn, args, out]

cache_vars == <<capacity, low, med, high, now, pc, ret, step, hist>>
conc_vars == <<th, held0, evicted>>
gpu_vars == <<DEVICE, QUEUE, gpu>>
token_vars == <<token, tch>>
trace_vars == <<again, moved>>

vars == <<capacity, low, med, high, now, pc, ret, step, hist, again, moved,
          th, held0, evicted, DEVICE, QUEUE, gpu, token, tch, eval>>

\* ------------------------------------------------------------ image layer
PixelFormats == {"Rgba8Unorm", "Rgba8UnormSrgb", "Gray8"}

bytes_per_pixel(format) ==
    IF format \in {"Rgba8Unorm", "Rgba8UnormSrgb"} THEN 4 ELSE 1

to_wgpu(format) ==
    CASE format = "Rgba8Unorm" -> "Rgba8Unorm"
      [] format = "Rgba8UnormSrgb" -> "Rgba8UnormSrgb"
      [] format = "Gray8" -> "R8Unorm"

from_wgpu(format) ==
    CASE format = "Rgba8Unorm" -> "Rgba8Unorm"
      [] format = "Rgba8UnormSrgb" -> "Rgba8UnormSrgb"
      [] format = "R8Unorm" -> "Gray8"
      [] OTHER -> "None"

RawImage(format, width, height) ==
    [kind |-> "raw", format |-> format, width |-> width, height |-> height,
     len |-> width * height * bytes_per_pixel(format)]

\* qoi::encode_to_vec(data, width, height) derives the channel count from
\* data.len() / (width * height) and accepts 3 or 4 channels of a non-empty
\* image only.
qoi_encode_ok(image) ==
    /\ image.width * image.height > 0
    /\ image.len % (image.width * image.height) = 0
    /\ image.len \div (image.width * image.height) \in {3, 4}

COMPRESSION_STRATEGY == "Qoi"

compress(image, strategy) ==
    IF strategy = "Qoi" /\ ~qoi_encode_ok(image)
    THEN [ok |-> FALSE, err |-> "FailedCompress"]
    ELSE [ok |-> TRUE,
          val |-> [kind |-> "compressed", format |-> image.format,
                   width |-> image.width, height |-> image.height,
                   codec |-> strategy, decoded_len |-> image.len]]

\* From<RawImage> for CompressedImage: the Raw codec, never fails.
compressed_from_raw(image) ==
    [kind |-> "compressed", format |-> image.format,
     width |-> image.width, height |-> image.height,
     codec |-> "Raw", decoded_len |-> image.len]

\* CompressedImage::decompress.  A payload is what compress or
\* From<RawImage> made of decoded_len bytes, so no decoder reports a corrupt
\* stream; the qoi header carries the encoded width and height and the
\* channel count decoded_len / (width * height).
decompress(image) ==
    LET expected == image.width * image.height * bytes_per_pixel(image.format)
        pixels == image.width * image.height
        channels == IF pixels > 0 THEN image.decoded_len \div pixels ELSE 0
    IN  IF image.codec = "Qoi" /\ channels # bytes_per_pixel(image.format)
        THEN [ok |-> FALSE, err |-> "InvalidArgument"]
        ELSE IF image.decoded_len # expected
        THEN [ok |-> FALSE, err |-> "InvalidArgument"]
        ELSE [ok |-> TRUE,
              val |-> RawImage(image.format, image.width, image.height)]

\* An upload that asks for TEXTURE_BINDING only.
texture_from_raw_binding(image) ==
    [kind |-> "texture", format |-> to_wgpu(image.format),
     width |-> image.width, height |-> image.height,
     dimension |-> "D2",
     usage |-> {"TEXTURE_BINDING", "COPY_DST"}]

\* From<&RawImage> for Texture, through RawImage::to_texture.
texture_from_raw(image) ==
    [kind |-> "texture", format |-> to_wgpu(image.format),
     width |-> image.width, height |-> image.height,
     dimension |-> "D2",
     usage |-> {"TEXTURE_BINDING", "COPY_SRC", "COPY_DST"}]

\* From<Texture> for RawImage, through read_texture_into_raw.
read_texture_into_raw(texture) ==
    RawImage(from_wgpu(texture.format), texture.width, texture.height)

\* ------------------------------------------------------------ access token
Max(a, b) == IF a >= b THEN a ELSE b

\* AccessTokenSnapshot::from
snapshot_of(tok) == [touched |-> tok.touched, freq |-> tok.freq]

\* `as u32` of a millisecond count: the value modulo 2^32, written with
\* 65536 * 65536 because 2^32 itself is no number of the model checker.
as_u32(ms) == ms - ((ms \div 65536) \div 65536) * 65536 * 65536

\* AccessTokenSnapshot::score, with the clock reading t
score(snap, t) ==
    LET since == as_u32(t - snap.touched)
        freq == Max(snap.freq, 1)
    IN  since \div freq

\* Ord for AccessTokenSnapshot, with the clock reading t
cmp(a, b, t) ==
    IF score(a, t) < score(b, t) THEN "Less"
    ELSE IF score(a, t) > score(b, t) THEN "Greater"
    ELSE IF a.freq < b.freq THEN "Less"
    ELSE IF a.freq > b.freq THEN "Greater"
    ELSE "Equal"

\* ------------------------------------------------------------------ DashMap
\* An insert that writes the new entry over the whole map.
insert_clobber(m, k, v) == [x \in {k} |-> v]

insert(m, k, v) == [x \in (DOMAIN m) \cup {k} |-> IF x = k THEN v ELSE m[x]]
remove(m, k) == [x \in (DOMAIN m) \ {k} |-> m[x]]
len(m) == Cardinality(DOMAIN m)

\* The (entity, snapshot) pairs that iterating a tier collects.
snapshot(m) == [e \in DOMAIN m |-> snapshot_of(m[e].tok)]

\* A selection that returns an entry whatever its score.
max_by_any(snap, t) == DOMAIN snap

\* Iterator::max_by over a snapshot.  The iteration order of a DashMap is
\* unspecified, so any entry that no other entry exceeds can be the one
\* returned; the result is the set of those entries.  The comparisons of
\* one selection all read the clock at t.
max_by(snap, t) ==
    {e \in DOMAIN snap :
        \A f \in DOMAIN snap : cmp(snap[f], snap[e], t) # "Greater"}

\* Iterator::min_by over a snapshot, likewise.
min_by(snap, t) ==
    {e \in DOMAIN snap :
        \A f \in DOMAIN snap : cmp(snap[f], snap[e], t) # "Less"}

\* ------------------------------------------------------------- TieredCache
\* demote that inserts at the destination and leaves the source entry.
demote_result_dup(entity) ==
    IF entity \in DOMAIN low
    THEN [low |-> remove(low, entity), med |-> med, high |-> high, res |-> "Ok"]
    ELSE IF entity \in DOMAIN med
    THEN [low |-> insert(low, entity,
                         [tok |-> med[entity].tok,
                          img |-> compressed_from_raw(med[entity].img)]),
          med |-> med, high |-> high, res |-> "Ok"]
    ELSE IF entity \in DOMAIN high
    THEN [low |-> low,
          med |-> insert(med, entity,
                         [tok |-> high[entity].tok,
                          img |-> read_texture_into_raw(high[entity].img)]),
          high |-> high, res |-> "Ok"]
    ELSE [low |-> low, med |-> med, high |-> high, res |-> "NotFound"]

\* demote that leaves an entry of low where it is.
demote_result_keep_low(entity) ==
    IF entity \in DOMAIN low
    THEN [low |-> low, med |-> med, high |-> high, res |-> "Ok"]
    ELSE IF entity \in DOMAIN med
    THEN LET c == compress(med[entity].img, COMPRESSION_STRATEGY)
         IN  IF c.ok
             THEN [low |-> insert(low, entity,
                                  [tok |-> med[entity].tok, img |-> c.val]),
                   med |-> remove(med, entity), high |-> high, res |-> "Ok"]
             ELSE [low |-> low, med |-> remove(med, entity), high |-> high,
                   res |-> c.err]
    ELSE IF entity \in DOMAIN high
    THEN [low |-> low,
          med |-> insert(med, entity,
                         [tok |-> high[entity].tok,
                          img |-> read_texture_into_raw(high[entity].img)]),
          high |-> remove(high, entity), res |-> "Ok"]
    ELSE [low |-> low, med |-> med, high |-> high, res |-> "NotFound"]

\* demote that returns Ok for an entity that no tier holds.
demote_result_ok_absent(entity) ==
    IF entity \in DOMAIN low
    THEN [low |-> remove(low, entity), med |-> med, high |-> high, res |-> "Ok"]
    ELSE IF entity \in DOMAIN med
    THEN LET c == compress(med[entity].img, COMPRESSION_STRATEGY)
         IN  IF c.ok
             THEN [low |-> insert(low, entity,
                                  [tok |-> med[entity].tok, img |-> c.val]),
                   med |-> remove(med, entity), high |-> high, res |-> "Ok"]
             ELSE [low |-> low, med |-> remove(med, entity), high |-> high,
                   res |-> c.err]
    ELSE IF entity \in DOMAIN high
    THEN [low |-> low,
          med |-> insert(med, entity,
                         [tok |-> high[entity].tok,
                          img |-> read_texture_into_raw(high[entity].img)]),
          high |-> remove(high, entity), res |-> "Ok"]
    ELSE [low |-> low, med |-> med, high |-> high, res |-> "Ok"]

\* demote that puts an entry of med back when compress fails
demote_result_put_back(entity) ==
    IF entity \in DOMAIN low
    THEN [low |-> remove(low, entity), med |-> med, high |-> high, res |-> "Ok"]
    ELSE IF entity \in DOMAIN med
    THEN LET c == compress(med[entity].img, COMPRESSION_STRATEGY)
         IN  IF c.ok
             THEN [low |-> insert(low, entity,
                                  [tok |-> med[entity].tok, img |-> c.val]),
                   med |-> remove(med, entity), high |-> high, res |-> "Ok"]
             ELSE [low |-> low, med |-> med, high |-> high, res |-> c.err]
    ELSE IF entity \in DOMAIN high
    THEN [low |-> low,
          med |-> insert(med, entity,
                         [tok |-> high[entity].tok,
                          img |-> read_texture_into_raw(high[entity].img)]),
          high |-> remove(high, entity), res |-> "Ok"]
    ELSE [low |-> low, med |-> med, high |-> high, res |-> "NotFound"]

\* TieredCache::demote as a function of the state: the maps and the result.
demote_result(entity) ==
    IF entity \in DOMAIN low
    THEN [low |-> remove(low, entity), med |-> med, high |-> high, res |-> "Ok"]
    ELSE IF entity \in DOMAIN med
    THEN LET c == compress(med[entity].img, COMPRESSION_STRATEGY)
         IN  IF c.ok
             THEN [low |-> insert(low, entity,
                                  [tok |-> med[entity].tok, img |-> c.val]),
                   med |-> remove(med, entity), high |-> high, res |-> "Ok"]
             ELSE [low |-> low, med |-> remove(med, entity), high |-> high,
                   res |-> c.err]
    ELSE IF entity \in DOMAIN high
    THEN [low |-> low,
          med |-> insert(med, entity,
                         [tok |-> high[entity].tok,
                          img |-> read_texture_into_raw(high[entity].img)]),
          high |-> remove(high, entity), res |-> "Ok"]
    ELSE [low |-> low, med |-> med, high |-> high, res |-> "NotFound"]

\* promote that uploads an entry of low straight into high
\* (From<&CompressedImage> for Texture).
promote_result_skip(entity) ==
    IF entity \in DOMAIN low
    THEN LET d == decompress(low[entity].img)
         IN  IF d.ok
             THEN [low |-> remove(low, entity), med |-> med,
                   high |-> insert(high, entity,
                                   [tok |-> low[entity].tok,
                                    img |-> texture_from_raw(d.val)]),
                   res |-> "Ok"]
             ELSE [low |-> remove(low, entity), med |-> med, high |-> high,
                   res |-> d.err]
    ELSE IF entity \in DOMAIN med
    THEN [low |-> low, med |-> remove(med, entity),
          high |-> insert(high, entity,
                          [tok |-> med[entity].tok,
                           img |-> texture_from_raw(med[entity].img)]),
          res |-> "Ok"]
    ELSE [low |-> low, med |-> med, high |-> high, res |-> "NotFound"]

\* promote that counts the move as a touch of the entry's token.
promote_result_touch(entity) ==
    IF entity \in DOMAIN low
    THEN LET d == decompress(low[entity].img)
         IN  IF d.ok
             THEN [low |-> remove(low, entity),
                   med |-> insert(med, entity,
                                  [tok |-> [low[entity].tok EXCEPT
                                              !.freq = @ + 1],
                                   img |-> d.val]),
                   high |-> high, res |-> "Ok"]
             ELSE [low |-> remove(low, entity), med |-> med, high |-> high,
                   res |-> d.err]
    ELSE IF entity \in DOMAIN med
    THEN [low |-> low, med |-> remove(med, entity),
          high |-> insert(high, entity,
                          [tok |-> [med[entity].tok EXCEPT !.freq = @ + 1],
                           img |-> texture_from_raw(med[entity].img)]),
          res |-> "Ok"]
    ELSE [low |-> low, med |-> med, high |-> high, res |-> "NotFound"]

\* promote that stores an empty frame for an entity it does not find
promote_result_adds(entity) ==
    IF entity \in DOMAIN low
    THEN LET d == decompress(low[entity].img)
         IN  IF d.ok
             THEN [low |-> remove(low, entity),
                   med |-> insert(med, entity,
                                  [tok |-> low[entity].tok, img |-> d.val]),
                   high |-> high, res |-> "Ok"]
             ELSE [low |-> remove(low, entity), med |-> med, high |-> high,
                   res |-> d.err]
    ELSE IF entity \in DOMAIN med
    THEN [low |-> low, med |-> remove(med, entity),
          high |-> insert(high, entity,
                          [tok |-> med[entity].tok,
                           img |-> texture_from_raw(med[entity].img)]),
          res |-> "Ok"]
    ELSE IF entity \in DOMAIN high
    THEN [low |-> low, med |-> med, high |-> high, res |-> "NotFound"]
    ELSE [low |-> low,
          med |-> insert(med, entity,
                         [tok |-> [touched |-> 0, freq |-> 0],
                          img |-> RawImage("Rgba8Unorm", 0, 0)]),
          high |-> high, res |-> "NotFound"]

\* promote with a branch for high that reports the entry as already promoted
promote_result_top(entity) ==
    IF entity \in DOMAIN low
    THEN LET d == decompress(low[entity].img)
         IN  IF d.ok
             THEN [low |-> remove(low, entity),
                   med |-> insert(med, entity,
                                  [tok |-> low[entity].tok, img |-> d.val]),
                   high |-> high, res |-> "Ok"]
             ELSE [low |-> remove(low, entity), med |-> med, high |-> high,
                   res |-> d.err]
    ELSE IF entity \in DOMAIN med
    THEN [low |-> low, med |-> remove(med, entity),
          high |-> insert(high, entity,
                          [tok |-> med[entity].tok,
                           img |-> texture_from_raw(med[entity].img)]),
          res |-> "Ok"]
    ELSE IF entity \in DOMAIN high
    THEN [low |-> low, med |-> med, high |-> high, res |-> "Ok"]
    ELSE [low |-> low, med |-> med, high |-> high, res |-> "NotFound"]

\* TieredCache::promote as a function of the state.
promote_result(entity) ==
    IF entity \in DOMAIN low
    THEN LET d == decompress(low[entity].img)
         IN  IF d.ok
             THEN [low |-> remove(low, entity),
                   med |-> insert(med, entity,
                                  [tok |-> low[entity].tok, img |-> d.val]),
                   high |-> high, res |-> "Ok"]
             ELSE [low |-> remove(low, entity), med |-> med, high |-> high,
                   res |-> d.err]
    ELSE IF entity \in DOMAIN med
    THEN [low |-> low, med |-> remove(med, entity),
          high |-> insert(high, entity,
                          [tok |-> med[entity].tok,
                           img |-> texture_from_raw(med[entity].img)]),
          res |-> "Ok"]
    ELSE [low |-> low, med |-> med, high |-> high, res |-> "NotFound"]

NoStep == [op |-> "none", id |-> NoEntity, snap |-> <<>>, at |-> 0]
NoRet == [op |-> "none", id |-> NoEntity, res |-> "none", from |-> "absent"]
NoHist == [demote |-> FALSE, promote |-> FALSE]

\* The tier that holds entity e among the maps l, m, h.
TierIn(l, m, h, e) ==
    IF e \in DOMAIN h THEN "high"
    ELSE IF e \in DOMAIN m THEN "med"
    ELSE IF e \in DOMAIN l THEN "low"
    ELSE "absent"

Tier(e) == TierIn(low, med, high, e)

\* A call of TieredCache::demote from outside update().
demote(entity) ==
    /\ pc = "idle"
    /\ LET r == demote_result(entity)
       IN  /\ low' = r.low
           /\ med' = r.med
           /\ high' = r.high
           /\ ret' = [op |-> "demote", id |-> entity, res |-> r.res,
                      from |-> Tier(entity)]
    /\ step' = NoStep
    /\ hist' = NoHist
    /\ UNCHANGED <<capacity, now, pc>>

\* A call of TieredCache::promote from outside update().
promote(entity) ==
    /\ pc = "idle"
    /\ LET r == promote_result(entity)
       IN  /\ low' = r.low
           /\ med' = r.med
           /\ high' = r.high
           /\ ret' = [op |-> "promote", id |-> entity, res |-> r.res,
                      from |-> Tier(entity)]
    /\ step' = NoStep
    /\ hist' = NoHist
    /\ UNCHANGED <<capacity, now, pc>>

\* The chain without its third branch: an overflow of low is never drained.
rule_no_low ==
    IF len(high) > capacity[3]
    THEN [name |-> "a", op |-> "demote", src |-> "high",
          cands |-> max_by(snapshot(high), now)]
    ELSE IF len(med) > capacity[2]
    THEN [name |-> "b", op |-> "demote", src |-> "med",
          cands |-> max_by(snapshot(med), now)]
    ELSE IF len(high) < capacity[3]
    THEN [name |-> "d", op |-> "promote", src |-> "med",
          cands |-> min_by(snapshot(med), now)]
    ELSE IF len(med) < capacity[2]
    THEN [name |-> "e", op |-> "promote", src |-> "low",
          cands |-> min_by(snapshot(low), now)]
    ELSE [name |-> "none", op |-> "none", src |-> "none", cands |-> {}]

\* The chain with `<=` for `<` in its fourth branch: it promotes into a
\* full high tier.
rule_promote_at_cap ==
    IF len(high) > capacity[3]
    THEN [name |-> "a", op |-> "demote", src |-> "high",
          cands |-> max_by(snapshot(high), now)]
    ELSE IF len(med) > capacity[2]
    THEN [name |-> "b", op |-> "demote", src |-> "med",
          cands |-> max_by(snapshot(med), now)]
    ELSE IF len(low) > capacity[1]
    THEN [name |-> "c", op |-> "demote", src |-> "low",
          cands |-> max_by(snapshot(low), now)]
    ELSE IF len(high) <= capacity[3]
    THEN [name |-> "d", op |-> "promote", src |-> "med",
          cands |-> min_by(snapshot(med), now)]
    ELSE IF len(med) < capacity[2]
    THEN [name |-> "e", op |-> "promote", src |-> "low",
          cands |-> min_by(snapshot(low), now)]
    ELSE [name |-> "none", op |-> "none", src |-> "none", cands |-> {}]

\* The chain with the promotion into high tried before the overflow of low.
rule_promote_first ==
    IF len(high) > capacity[3]
    THEN [name |-> "a", op |-> "demote", src |-> "high",
          cands |-> max_by(snapshot(high), now)]
    ELSE IF len(med) > capacity[2]
    THEN [name |-> "b", op |-> "demote", src |-> "med",
          cands |-> max_by(snapshot(med), now)]
    ELSE IF len(high) < capacity[3] /\ len(med) > 0
    THEN [name |-> "d", op |-> "promote", src |-> "med",
          cands |-> min_by(snapshot(med), now)]
    ELSE IF len(low) > capacity[1]
    THEN [name |-> "c", op |-> "demote", src |-> "low",
          cands |-> max_by(snapshot(low), now)]
    ELSE IF len(med) < capacity[2]
    THEN [name |-> "e", op |-> "promote", src |-> "low",
          cands |-> min_by(snapshot(low), now)]
    ELSE [name |-> "none", op |-> "none", src |-> "none", cands |-> {}]

\* The chain without the promotion out of med: high is never filled.
rule_no_high ==
    IF len(high) > capacity[3]
    THEN [name |-> "a", op |-> "demote", src |-> "high",
          cands |-> max_by(snapshot(high), now)]
    ELSE IF len(med) > capacity[2]
    THEN [name |-> "b", op |-> "demote", src |-> "med",
          cands |-> max_by(snapshot(med), now)]
    ELSE IF len(low) > capacity[1]
    THEN [name |-> "c", op |-> "demote", src |-> "low",
          cands |-> max_by(snapshot(low), now)]
    ELSE IF len(med) < capacity[2]
    THEN [name |-> "e", op |-> "promote", src |-> "low",
          cands |-> min_by(snapshot(low), now)]
    ELSE [name |-> "none", op |-> "none", src |-> "none", cands |-> {}]

\* The if / else-if chain of one loop iteration of update(): the branch
\* taken, the call it makes, the tier it selects from and the entries the
\* selection can return (none when the snapshot is empty).
rule ==
    IF len(high) > capacity[3]
    THEN [name |-> "a", op |-> "demote", src |-> "high",
          cands |-> max_by(snapshot(high), now)]
    ELSE IF len(med) > capacity[2]
    THEN [name |-> "b", op |-> "demote", src |-> "med",
          cands |-> max_by(snapshot(med), now)]
    ELSE IF len(low) > capacity[1]
    THEN [name |-> "c", op |-> "demote", src |-> "low",
          cands |-> max_by(snapshot(low), now)]
    ELSE IF len(high) < capacity[3]
    THEN [name |-> "d", op |-> "promote", src |-> "med",
          cands |-> min_by(snapshot(med), now)]
    ELSE IF len(med) < capacity[2]
    THEN [name |-> "e", op |-> "promote", src |-> "low",
          cands |-> min_by(snapshot(low), now)]
    ELSE [name |-> "none", op |-> "none", src |-> "none", cands |-> {}]

SourceMap(src) ==
    IF src = "high" THEN high ELSE IF src = "med" THEN med ELSE low

\* update() is called: it reads self.capacity and enters its loop.
update_call ==
    /\ pc = "idle"
    /\ pc' = "loop"
    /\ ret' = NoRet
    /\ step' = NoStep
    /\ hist' = NoHist
    /\ UNCHANGED <<capacity, low, med, high, now>>

\* update() without its loop: it returns Ok after the first move.
update_iter_once ==
    /\ pc = "loop"
    /\ LET r == rule
       IN  IF r.cands = {}
           THEN /\ step' = NoStep
                /\ UNCHANGED <<low, med, high, hist>>
                /\ ret' = [op |-> "update", id |-> NoEntity, res |-> "Ok",
                           from |-> "absent"]
           ELSE \E entity \in r.cands :
                  LET m == IF r.op = "demote" THEN demote_result(entity)
                           ELSE promote_result(entity)
                  IN  /\ low' = m.low
                      /\ med' = m.med
                      /\ high' = m.high
                      /\ step' = [op |-> r.op, id |-> entity,
                                  snap |-> snapshot(SourceMap(r.src)),
                                  at |-> now]
                      /\ hist' = [hist EXCEPT ![r.op] = TRUE]
                      /\ ret' = [op |-> "update", id |-> NoEntity,
                                 res |-> m.res, from |-> "absent"]
    /\ pc' = "idle"
    /\ UNCHANGED <<capacity, now>>

\* update() that swallows the error of a failed demote or promote and goes
\* on with its loop.
update_iter_swallow ==
    /\ pc = "loop"
    /\ LET r == rule
       IN  IF r.cands = {}
           THEN /\ pc' = "idle"
                /\ ret' = [op |-> "update", id |-> NoEntity, res |-> "Ok",
                           from |-> "absent"]
                /\ step' = NoStep
                /\ UNCHANGED <<low, med, high, hist>>
           ELSE \E entity \in r.cands :
                  LET m == IF r.op = "demote" THEN demote_result(entity)
                           ELSE promote_result(entity)
                  IN  /\ low' = m.low
                      /\ med' = m.med
                      /\ high' = m.high
                      /\ step' = [op |-> r.op, id |-> entity,
                                  snap |-> snapshot(SourceMap(r.src)),
                                  at |-> now]
                      /\ hist' = [hist EXCEPT ![r.op] = TRUE]
                      /\ pc' = "loop"
                      /\ ret' = ret
    /\ UNCHANGED <<capacity, now>>

\* One iteration of the loop of update(): the three snapshots, the selected
\* branch and its demote or promote call; `changed` decides between the next
\* iteration and the break that returns Ok, and `?` returns a failed call's
\* error at once.
update_iter ==
    /\ pc = "loop"
    /\ LET r == rule
       IN  IF r.cands = {}
           THEN /\ pc' = "idle"
                /\ ret' = [op |-> "update", id |-> NoEntity, res |-> "Ok",
                           from |-> "absent"]
                /\ step' = NoStep
                /\ UNCHANGED <<low, med, high, hist>>
           ELSE \E entity \in r.cands :
                  LET m == IF r.op = "demote" THEN demote_result(entity)
                           ELSE promote_result(entity)
                  IN  /\ low' = m.low
                      /\ med' = m.med
                      /\ high' = m.high
                      /\ step' = [op |-> r.op, id |-> entity,
                                  snap |-> snapshot(SourceMap(r.src)),
                                  at |-> now]
                      /\ hist' = [hist EXCEPT ![r.op] = TRUE]
                      /\ IF m.res = "Ok"
                         THEN pc' = "loop" /\ ret' = ret
                         ELSE /\ pc' = "idle"
                              /\ ret' = [op |-> "update", id |-> NoEntity,
                                         res |-> m.res, from |-> "absent"]
    /\ UNCHANGED <<capacity, now>>

\* Time passes: a later Instant::elapsed() reads a later clock.
Tick ==
    /\ now < MaxNow
    /\ now' = now + 1
    /\ UNCHANGED <<capacity, low, med, high, pc, ret, step, hist>>

\* ------------------------------------------------------------ initial state
Tiers == {"absent", "low", "med", "high"}

TierRank(t) ==
    CASE t = "absent" -> 0 [] t = "low" -> 1 [] t = "med" -> 2 [] t = "high" -> 3
FreshToken == [touched |-> 0, freq |-> 0]
InitTokens == [touched : {0}, freq : 0..MaxFreq]
RgbaImage == RawImage("Rgba8Unorm", 1, 1)
GrayImage == RawImage("Gray8", 1, 1)

\* The CompressedImage of an entry that is held in low: what compress makes
\* of it with the default strategy, or the Raw form of From<RawImage>.
compressed_of(image) ==
    IF compress(image, COMPRESSION_STRATEGY).ok
    THEN compress(image, COMPRESSION_STRATEGY).val
    ELSE compressed_from_raw(image)

\* The three maps that hold entity e in tier place[e], with token tok[e] and
\* the payload image[e] in the form of its tier.
Placed(place, tok, image) ==
    /\ low = [e \in {x \in Entities : place[x] = "low"} |->
                [tok |-> tok[e], img |-> compressed_of(image[e])]]
    /\ med = [e \in {x \in Entities : place[x] = "med"} |->
                [tok |-> tok[e], img |-> image[e]]]
    /\ high = [e \in {x \in Entities : place[x] = "high"} |->
                [tok |-> tok[e], img |-> texture_from_raw(image[e])]]

\* The threads that call the cache concurrently, and those that touch one
\* token concurrently.
Threads == {"t1", "t2"}

\* A thread that has made no call of the cache yet.
\* `alone` is what the call would return, and the tier it would leave its
\* entity in, if it ran to its end at once; `overlap` says that another
\* thread was inside a call when this one began.
NoCall == [op |-> "none", call |-> "none", id |-> NoEntity, pc |-> "idle",
           val |-> <<>>, dst |-> "none", res |-> "none",
           alone |-> [res |-> "none", tier |-> "absent"],
           overlap |-> FALSE, ub |-> FALSE]

\* No thread has called the cache; held0 is only kept where threads run.
NoThreads ==
    /\ th = [t \in Threads |-> NoCall]
    /\ held0 = {}
    /\ evicted = {}

\* The callers of init_gpu; an empty OnceLock holds NoGpu, a set one holds
\* the value of the caller that set it.
Callers == 1..NumCallers
NoGpu == 0
NoInit == [pc |-> "idle", res |-> "none"]

\* DEVICE and QUEUE as an init_gpu call before the cache was built set them.
GpuReady ==
    /\ DEVICE = 1
    /\ QUEUE = 1
    /\ gpu = [c \in Callers |-> NoInit]

\* A 32-bit counter as <<high half, low half>>, each half in 0..Half-1.
Half == 65536
NoTouch == [pc |-> "idle", at |-> 0, n |-> 0]

TokenIdle ==
    /\ token = [last_touched |-> 0, touched_freq |-> <<0, 0>>]
    /\ tch = [t \in Threads |-> NoTouch]

\* No call of the cache is running; the sequential cache specifications
\* start here and leave the threads, the GPU cells and the token alone.
CacheIdle ==
    /\ now = 0
    /\ pc = "idle"
    /\ ret = NoRet
    /\ step = NoStep
    /\ hist = NoHist
    /\ again = FALSE
    /\ moved = FALSE

\* No function of the image layer has been called.
NoEval == [fn |-> "none", args |-> <<>>, out |-> <<>>]

Idle ==
    /\ CacheIdle
    /\ NoThreads
    /\ GpuReady
    /\ TokenIdle
    /\ eval = NoEval

\* Any capacities, any placement of the entities in disjoint tiers, any
\* number of Gray8 frames (entity ids are opaque, so the Gray8 frames are
\* the first k).  Every token is fresh, so every entry of a tier can be the
\* one a selection of update() returns.
Init ==
    /\ capacity \in (1..MaxCap) \X (1..MaxCap) \X (1..MaxCap)
    /\ \E place \in [Entities -> Tiers], k \in 0..NumEntities :
         Placed(place, [e \in Entities |-> FreshToken],
                [e \in Entities |-> IF e <= k THEN GrayImage ELSE RgbaImage])
    /\ Idle

\* Init for runs of update() alone, where entities with equal payloads are
\* interchangeable: they are placed in ascending order of their tiers.
InitUpdate ==
    /\ capacity \in (1..MaxCap) \X (1..MaxCap) \X (1..MaxCap)
    /\ \E place \in [Entities -> Tiers], k \in 0..NumEntities :
         /\ \A e \in Entities, f \in Entities :
               (e <= f /\ (e <= k <=> f <= k))
                  => TierRank(place[e]) <= TierRank(place[f])
         /\ Placed(place, [e \in Entities |-> FreshToken],
                   [e \in Entities |-> IF e <= k THEN GrayImage ELSE RgbaImage])
    /\ Idle

\* Equal capacities, any placement, any touch frequencies (entity ids are
\* opaque, so the frequencies are listed in ascending order), RGBA frames.
InitScore ==
    /\ capacity \in {<<c, c, c>> : c \in 1..MaxCap}
    /\ \E place \in [Entities -> Tiers], tok \in [Entities -> InitTokens] :
         /\ \A e \in Entities, f \in Entities :
               e <= f => tok[e].freq <= tok[f].freq
         /\ Placed(place, tok, [e \in Entities |-> RgbaImage])
    /\ Idle

Next ==
    /\ \/ \E entity \in Entities : demote(entity)
       \/ \E entity \in Entities : promote(entity)
       \/ update_call
       \/ update_iter
       \/ Tick
    /\ UNCHANGED <<trace_vars, conc_vars, gpu_vars, token_vars, eval>>

Spec == Init /\ [][Next]_vars

SpecScore == InitScore /\ [][Next]_vars

\* update() calls alone, from any initial placement.  Every token of
\* InitUpdate is fresh, so no clock reading changes what a selection returns.
UpdateNext ==
    /\ \/ update_call
       \/ update_iter
    /\ UNCHANGED <<trace_vars, conc_vars, gpu_vars, token_vars, eval>>

\* update() runs on: a running call takes its next loop iteration.
FairSpec == InitUpdate /\ [][UpdateNext]_vars /\ WF_cache_vars(update_iter)

\* update() calls with the clock running, and a record of them: `again`
\* is set by a call that follows an update() that returned Ok, `moved` by
\* an iteration whose demote or promote returned Ok (the loop goes on).
TracedNext ==
    \/ /\ update_call
       /\ again' = (ret.op = "update" /\ ret.res = "Ok")
       /\ moved' = FALSE
       /\ UNCHANGED <<conc_vars, gpu_vars, token_vars, eval>>
    \/ /\ update_iter
       /\ again' = again
       /\ moved' = (moved \/ pc' = "loop")
       /\ UNCHANGED <<conc_vars, gpu_vars, token_vars, eval>>
    \/ /\ Tick
       /\ UNCHANGED <<trace_vars, conc_vars, gpu_vars, token_vars, eval>>

\* Entries with differing touch frequencies: the scores change with time.
SpecAgain == InitScore /\ [][TracedNext]_vars

\* Gray8 and RGBA frames: a demote out of med can fail.
SpecFail == InitUpdate /\ [][TracedNext]_vars

\* ------------------------------------------------- concurrent cache calls
\* TieredCache is shared by reference (&self) and its maps are DashMaps, so
\* calls from several threads interleave between any two map accesses.  A
\* thread runs one call; each step below is one access of a map together
\* with the thread-local work that follows it.

TierMap(tier) ==
    IF tier = "high" THEN high ELSE IF tier = "med" THEN med ELSE low

\* What Option::unwrap_unchecked can hand back for a None, when the build
\* goes on with the bytes it finds: an entry of the shape the destination
\* tier holds.
UnspecifiedEntry(dst) ==
    [tok |-> FreshToken,
     img |-> IF dst = "low" THEN compressed_of(RgbaImage)
             ELSE IF dst = "med" THEN RgbaImage
             ELSE texture_from_raw(RgbaImage)]

\* The caller's record when its promote or demote returns res: a direct call
\* has returned; inside update(), Ok sets `changed` and loops, and `?`
\* returns an error from update() itself.
Return(c, res) ==
    IF c.op = "update" /\ res = "Ok"
    THEN [c EXCEPT !.call = "none", !.pc = "select", !.val = <<>>,
                   !.dst = "none"]
    ELSE [c EXCEPT !.call = "none", !.pc = "done", !.val = <<>>,
                   !.dst = "none", !.res = res]

\* Another thread than t is inside a call.
Busy(t) == \E u \in Threads \ {t} : th[u].pc \notin {"idle", "done", "ub"}

\* Thread t calls demote(entity).
demote_begin(t, entity) ==
    /\ th[t].pc = "idle"
    /\ LET r == demote_result(entity)
       IN  th' = [th EXCEPT ![t] =
                    [NoCall EXCEPT
                       !.op = "demote", !.call = "demote", !.id = entity,
                       !.pc = "low?", !.overlap = Busy(t),
                       !.alone = [res |-> r.res,
                                  tier |-> TierIn(r.low, r.med, r.high,
                                                  entity)]]]
    /\ UNCHANGED <<cache_vars, trace_vars, held0, evicted, gpu_vars,
                   token_vars, eval>>

\* Thread t calls promote(entity).
promote_begin(t, entity) ==
    /\ th[t].pc = "idle"
    /\ LET r == promote_result(entity)
       IN  th' = [th EXCEPT ![t] =
                    [NoCall EXCEPT
                       !.op = "promote", !.call = "promote", !.id = entity,
                       !.pc = "low?", !.overlap = Busy(t),
                       !.alone = [res |-> r.res,
                                  tier |-> TierIn(r.low, r.med, r.high,
                                                  entity)]]]
    /\ UNCHANGED <<cache_vars, trace_vars, held0, evicted, gpu_vars,
                   token_vars, eval>>

\* Thread t calls update().
update_begin(t) ==
    /\ th[t].pc = "idle"
    /\ th' = [th EXCEPT ![t] = [NoCall EXCEPT !.op = "update",
                                  !.pc = "select"]]
    /\ UNCHANGED <<cache_vars, trace_vars, held0, evicted, gpu_vars,
                   token_vars, eval>>

\* One contains_key of promote or demote: low, then med, then (demote only)
\* high; the first tier that has the key is the one the call removes from,
\* and a call that finds none returns NotFound.
contains_key(t) ==
    LET c == th[t]
    IN  /\ c.pc \in {"low?", "med?", "high?"}
        /\ th' = [th EXCEPT ![t] =
                    IF c.pc = "low?"
                    THEN IF c.id \in DOMAIN low
                         THEN [c EXCEPT !.pc = "rm_low"]
                         ELSE [c EXCEPT !.pc = "med?"]
                    ELSE IF c.pc = "med?"
                    THEN IF c.id \in DOMAIN med
                         THEN [c EXCEPT !.pc = "rm_med"]
                         ELSE IF c.call = "demote"
                         THEN [c EXCEPT !.pc = "high?"]
                         ELSE Return(c, "NotFound")
                    ELSE IF c.id \in DOMAIN high
                         THEN [c EXCEPT !.pc = "rm_high"]
                         ELSE Return(c, "NotFound")]
        /\ UNCHANGED <<cache_vars, trace_vars, held0, evicted, gpu_vars,
                   token_vars, eval>>

\* The entry a call holds after it has removed entry e from tier src and
\* converted it for the tier it moves to; ok is FALSE when the codec fails.
converted(call, src, e) ==
    IF call = "demote" /\ src = "med"
    THEN LET c == compress(e.img, COMPRESSION_STRATEGY)
         IN  IF c.ok
             THEN [ok |-> TRUE, dst |-> "low",
                   val |-> [tok |-> e.tok, img |-> c.val]]
             ELSE [ok |-> FALSE, err |-> c.err]
    ELSE IF call = "demote"
    THEN [ok |-> TRUE, dst |-> "med",
          val |-> [tok |-> e.tok, img |-> read_texture_into_raw(e.img)]]
    ELSE IF src = "low"
    THEN LET d == decompress(e.img)
         IN  IF d.ok
             THEN [ok |-> TRUE, dst |-> "med",
                   val |-> [tok |-> e.tok, img |-> d.val]]
             ELSE [ok |-> FALSE, err |-> d.err]
    ELSE [ok |-> TRUE, dst |-> "high",
          val |-> [tok |-> e.tok, img |-> texture_from_raw(e.img)]]

\* The tier a call moves an entry of src to.
dst_of(call, src) ==
    IF call = "demote" THEN (IF src = "high" THEN "med" ELSE "low")
    ELSE (IF src = "low" THEN "med" ELSE "high")

\* The remove that follows a successful contains_key.  demote drops the
\* result of low.remove; every other remove is unwrapped unchecked, so when
\* another thread has taken the entry since the contains_key the call has
\* undefined behaviour: it aborts, or it goes on with an unspecified entry.
remove_entry(t) ==
    LET c == th[t]
        src == IF c.pc = "rm_low" THEN "low"
               ELSE IF c.pc = "rm_med" THEN "med" ELSE "high"
        m == TierMap(src)
    IN  /\ c.pc \in {"rm_low", "rm_med", "rm_high"}
        /\ low' = IF src = "low" THEN remove(low, c.id) ELSE low
        /\ med' = IF src = "med" THEN remove(med, c.id) ELSE med
        /\ high' = IF src = "high" THEN remove(high, c.id) ELSE high
        /\ IF c.call = "demote" /\ src = "low"
           THEN /\ th' = [th EXCEPT ![t] = Return(c, "Ok")]
                /\ evicted' = IF c.id \in DOMAIN low
                              THEN evicted \cup {c.id} ELSE evicted
           ELSE /\ evicted' = evicted
                /\ IF c.id \in DOMAIN m
                   THEN LET r == converted(c.call, src, m[c.id])
                        IN  th' = [th EXCEPT ![t] =
                                     IF r.ok
                                     THEN [c EXCEPT !.pc = "insert",
                                                    !.val = r.val,
                                                    !.dst = r.dst]
                                     ELSE Return(c, r.err)]
                   ELSE \E outcome \in {"abort", "value"} :
                          th' = [th EXCEPT ![t] =
                                   IF outcome = "abort"
                                   THEN [c EXCEPT !.pc = "ub", !.ub = TRUE,
                                                  !.call = "none"]
                                   ELSE [c EXCEPT
                                           !.pc = "insert", !.ub = TRUE,
                                           !.dst = dst_of(c.call, src),
                                           !.val = UnspecifiedEntry(
                                                     dst_of(c.call, src))]]
        /\ UNCHANGED <<capacity, now, pc, ret, step, hist, trace_vars, held0,
                       gpu_vars, token_vars, eval>>

\* The insert into the destination tier, after which the call returns Ok.
insert_entry(t) ==
    LET c == th[t]
    IN  /\ c.pc = "insert"
        /\ low' = IF c.dst = "low" THEN insert(low, c.id, c.val) ELSE low
        /\ med' = IF c.dst = "med" THEN insert(med, c.id, c.val) ELSE med
        /\ high' = IF c.dst = "high" THEN insert(high, c.id, c.val) ELSE high
        /\ th' = [th EXCEPT ![t] = Return(c, "Ok")]
        /\ UNCHANGED <<capacity, now, pc, ret, step, hist, trace_vars, held0,
                       evicted, gpu_vars, token_vars, eval>>

\* The head of one loop iteration of update() in thread t: the snapshots,
\* the lengths and the branch taken, read here in one step; the demote or
\* promote it calls then runs access by access like a direct call.  With
\* nothing to move, `changed` stays false and update() returns Ok.
select(t) ==
    LET c == th[t]
        r == rule
    IN  /\ c.pc = "select"
        /\ IF r.cands = {}
           THEN th' = [th EXCEPT ![t] = [c EXCEPT !.pc = "done",
                                                  !.res = "Ok"]]
           ELSE \E entity \in r.cands :
                  th' = [th EXCEPT ![t] = [c EXCEPT !.call = r.op,
                                                    !.id = entity,
                                                    !.pc = "low?"]]
        /\ UNCHANGED <<cache_vars, trace_vars, held0, evicted, gpu_vars,
                   token_vars, eval>>

\* Any placement of at most MaxConcHeld RGBA frames with fresh tokens (the
\* frames are alike and entity ids are opaque, so they are placed in
\* ascending order of their tiers), equal capacities, and no thread in a
\* call yet.
InitConc ==
    /\ capacity \in {<<c, c, c>> : c \in 1..MaxCap}
    /\ \E place \in [Entities -> Tiers] :
         /\ \A e \in Entities, f \in Entities :
               e <= f => TierRank(place[e]) <= TierRank(place[f])
         /\ Cardinality({e \in Entities : place[e] # "absent"}) <= MaxConcHeld
         /\ Placed(place, [e \in Entities |-> FreshToken],
                   [e \in Entities |-> RgbaImage])
    /\ CacheIdle
    /\ th = [t \in Threads |-> NoCall]
    /\ held0 = (DOMAIN low) \cup (DOMAIN med) \cup (DOMAIN high)
    /\ evicted = {}
    /\ GpuReady
    /\ TokenIdle
    /\ eval = NoEval

\* Each thread makes one call of promote, demote or update().
ConcNext ==
    \/ \E t \in Threads, entity \in Entities : demote_begin(t, entity)
    \/ \E t \in Threads, entity \in Entities : promote_begin(t, entity)
    \/ \E t \in Threads : update_begin(t)
    \/ \E t \in Threads : contains_key(t)
    \/ \E t \in Threads : remove_entry(t)
    \/ \E t \in Threads : insert_entry(t)
    \/ \E t \in Threads : select(t)

SpecConc == InitConc /\ [][ConcNext]_vars

\* Any placement of Gray8 and RGBA frames with fresh tokens, as in
\* InitUpdate, with the largest capacities (no call below reads them).
InitMoves ==
    /\ InitUpdate
    /\ capacity = <<MaxCap, MaxCap, MaxCap>>

\* Each thread makes one call of promote or demote.
MovesNext ==
    \/ \E t \in Threads, entity \in Entities : demote_begin(t, entity)
    \/ \E t \in Threads, entity \in Entities : promote_begin(t, entity)
    \/ \E t \in Threads : contains_key(t)
    \/ \E t \in Threads : remove_entry(t)
    \/ \E t \in Threads : insert_entry(t)

SpecMoves == InitMoves /\ [][MovesNext]_vars

\* ------------------------------------------------------------ properties
Held == (DOMAIN low) \cup (DOMAIN med) \cup (DOMAIN high)

\* The tier of e after the step.
TierNext(e) == TierIn(low', med', high', e)

\* A step that is one loop iteration of update().
IterStep ==
    /\ pc = "loop"
    /\ (pc' # "loop" \/ <<low, med, high>>' # <<low, med, high>>)

NoOverflow ==
    /\ len(high) <= capacity[3]
    /\ len(med) <= capacity[2]
    /\ len(low) <= capacity[1]

\* C1: in every state reached by promote, demote and update() calls from
\* disjoint tiers, every entity is a key of at most one of low, med, high.
C1_AtMostOneTier ==
    \A e \in Entities :
        Cardinality({t \in {"low", "med", "high"} :
                        e \in DOMAIN SourceMap(t)}) <= 1

C1_Witness ==
    /\ ret.op = "demote" /\ ret.res = "Ok" /\ ret.from = "high"
    /\ ret.id \in DOMAIN med

\* C2: when an update() call returns Ok, no tier holds more entries than its
\* capacity.
C2_UpdateOkWithinCapacity ==
    (pc = "idle" /\ ret.op = "update" /\ ret.res = "Ok") => NoOverflow

C2_Witness ==
    /\ pc = "idle" /\ ret.op = "update" /\ ret.res = "Ok"
    /\ hist.demote
    /\ len(low) = capacity[1] /\ len(med) = capacity[2]
    /\ len(high) = capacity[3]

\* C3: a running update() call always returns: its loop cannot go on for
\* ever.
C3_UpdateTerminates == (pc = "loop") ~> (pc = "idle")

C3_Witness ==
    /\ pc = "idle" /\ ret.op = "update" /\ ret.res = "Ok"
    /\ hist.demote /\ hist.promote

\* C4: in one update() call, an iteration promotes only when no tier is over
\* its capacity, and no iteration demotes after an iteration has promoted.
C4_DemotionsBeforePromotions ==
    [][IterStep =>
        /\ (\E e \in Entities : TierRank(TierNext(e)) > TierRank(Tier(e)))
              => NoOverflow
        /\ (\E e \in Entities : TierRank(TierNext(e)) < TierRank(Tier(e)))
              => ~hist.promote]_vars

C4_Witness ==
    /\ pc = "loop" /\ step.op = "promote" /\ hist.demote

\* The entities whose tier the step changes.
Moved == {e \in Entities : TierNext(e) # Tier(e)}

\* C5: each iteration of update() acts by the first applicable rule of
\* (a) high over capacity: one entry of high goes to med, (b) med over
\* capacity: one entry of med goes to low, (c) low over capacity: one entry
\* of low leaves low, (d) high under capacity: one entry of med goes to
\* high, (e) med under capacity: one entry of low goes to med; it moves at
\* most one entity, and by one tier.
C5_FirstApplicableRule ==
    [][IterStep =>
        /\ Cardinality(Moved) <= 1
        /\ IF len(high) > capacity[3]
           THEN \E e \in DOMAIN high : Moved = {e} /\ TierNext(e) = "med"
           ELSE IF len(med) > capacity[2]
           THEN \E e \in DOMAIN med : Moved = {e} /\ TierNext(e) = "low"
           ELSE IF len(low) > capacity[1]
           THEN \E e \in DOMAIN low : Moved = {e} /\ TierNext(e) = "absent"
           ELSE IF len(high) < capacity[3]
           THEN \/ DOMAIN med = {} /\ Moved = {}
                \/ \E e \in DOMAIN med : Moved = {e} /\ TierNext(e) = "high"
           ELSE IF len(med) < capacity[2]
           THEN \/ DOMAIN low = {} /\ Moved = {}
                \/ \E e \in DOMAIN low : Moved = {e} /\ TierNext(e) = "med"
           ELSE Moved = {}]_vars

\* The score, at the clock reading of the step, of the entry that holds e.
ScoreOf(m, e) == score(snapshot_of(m[e].tok), now)

C7_TieKeepsFrequent ==
    [][IterStep =>
        \A e \in Moved :
            LET m == SourceMap(Tier(e))
            IN  \A f \in DOMAIN m :
                   ScoreOf(m, f) = ScoreOf(m, e) =>
                      IF TierRank(TierNext(e)) < TierRank(Tier(e))
                      THEN m[e].tok.freq <= m[f].tok.freq
                      ELSE m[e].tok.freq >= m[f].tok.freq]_vars

\* C8 as claimed: after demote(id) on an entity held in low, the entity is
\* still held in low.
C8_DemoteKeepsLow ==
    (ret.op = "demote" /\ ret.from = "low") => ret.id \in DOMAIN low

\* C8 as amended: demote(id) on an entity held in low returns Ok and the
\* entity is afterwards held in none of the tiers.
C8_DemoteEvictsLow ==
    (ret.op = "demote" /\ ret.from = "low")
        => (ret.res = "Ok" /\ Tier(ret.id) = "absent")

C8_Witness ==
    /\ ret.op = "demote" /\ ret.from = "low" /\ ret.res = "Ok"
    /\ ret.id \notin Held

\* C9: promote(id) and demote(id) with an id that no tier holds return
\* NotFound and leave the three tiers unchanged.
C9_NotFoundUnchanged ==
    /\ []((ret.op \in {"promote", "demote"} /\ ret.from = "absent")
             => ret.res = "NotFound")
    /\ [][(ret'.op \in {"promote", "demote"} /\ ret'.from = "absent")
             => UNCHANGED <<low, med, high>>]_vars

C9_Witness ==
    /\ ret.op = "promote" /\ ret.from = "absent" /\ ret.res = "NotFound"
    /\ Held # {}

Adjacent(op, from, to) ==
    \/ op = "promote" /\ <<from, to>> \in {<<"low", "med">>, <<"med", "high">>}
    \/ op = "demote" /\ <<from, to>> \in {<<"high", "med">>, <<"med", "low">>}

\* No step takes an entity from low to high or from high to low.
NoSkip ==
    [][\A e \in Entities :
          <<Tier(e), TierNext(e)>> \notin {<<"low", "high">>, <<"high", "low">>}]_vars

\* C10 as claimed: a successful promote(id) moves the entity low -> med or
\* med -> high, a successful demote(id) moves it high -> med or med -> low,
\* and no call and no iteration of update() moves an entity between low and
\* high.
C10_OneStepMoves ==
    /\ []((ret.op \in {"promote", "demote"} /\ ret.res = "Ok")
             => Adjacent(ret.op, ret.from, Tier(ret.id)))
    /\ NoSkip

\* C10 as amended: as claimed, but a successful demote(id) also moves an
\* entity of low out of the cache (low -> absent).
C10_OneStepMovesOrEvicts ==
    /\ []((ret.op \in {"promote", "demote"} /\ ret.res = "Ok")
             => \/ Adjacent(ret.op, ret.from, Tier(ret.id))
                \/ /\ ret.op = "demote"
                   /\ <<ret.from, Tier(ret.id)>> = <<"low", "absent">>)
    /\ NoSkip

C10_Witness ==
    /\ ret.op = "promote" /\ ret.res = "Ok" /\ ret.from = "low"
    /\ Tier(ret.id) = "med"

\* ------------------------------------------------ properties of the threads
\* Entity e is in the hands of a thread that has removed it from a tier and
\* has not inserted it at its destination yet.
InTransit(e) ==
    \E u \in Threads : th[u].pc = "insert" /\ th[u].id = e

\* No thread has run into undefined behaviour.
NoUb == \A u \in Threads : ~th[u].ub

\* C11: a promote or demote call on an entity that the cache holds, in a
\* tier or in the hands of a concurrent call that is moving it, never
\* returns NotFound (promote excepted for an entity that is in high or on
\* its way there, which it cannot promote further).
C11_MovesAtomic ==
    \A t \in Threads :
        (NoUb /\ th[t].pc = "done" /\ th[t].res = "NotFound"
              /\ th[t].op \in {"promote", "demote"})
           => \/ (th[t].id \notin Held /\ ~InTransit(th[t].id))
              \/ /\ th[t].op = "promote"
                 /\ \/ th[t].id \in DOMAIN high
                    \/ \E u \in Threads : /\ th[u].pc = "insert"
                                           /\ th[u].id = th[t].id
                                           /\ th[u].dst = "high"

\* Every thread is outside a call: it has made none or its call has returned.
AllReturned == \A u \in Threads : th[u].pc \in {"idle", "done"}

\* The number of tiers that have e as a key.
TiersOf(e) ==
    Cardinality({tier \in {"low", "med", "high"} : e \in DOMAIN TierMap(tier)})

\* C12: under any interleaving of concurrent promote, demote and update()
\* calls on RGBA frames, no entity is ever a key of two tiers, and once all
\* calls have returned every entity that was held at the start is a key of
\* exactly one tier, unless a demote found it in low and removed it.
C12_NoDuplicateNoLoss ==
    /\ \A e \in Entities : TiersOf(e) <= 1
    /\ AllReturned
          => \A e \in held0 : e \in evicted \/ TiersOf(e) = 1

\* C13: when two update() calls run concurrently on RGBA frames, neither
\* call returns an error: an update() call that has returned has returned
\* Ok.
C13_ConcurrentUpdatesOk ==
    (NoUb /\ \A u \in Threads : th[u].op \in {"none", "update"})
       => \A t \in Threads : th[t].pc = "done" => th[t].res = "Ok"

\* C14: a promote or demote call that has returned while every other thread
\* works on a different entity (or on none) has returned what it returns
\* when run alone and has left its entity in the tier it puts it in when
\* run alone, and no thread has run into undefined behaviour.
C14_DisjointCallsIndependent ==
    \A t \in Threads :
        (\A u \in Threads \ {t} : th[u].id # th[t].id)
           => /\ ~th[t].ub
              /\ th[t].pc = "done"
                    => /\ th[t].res = th[t].alone.res
                       /\ Tier(th[t].id) = th[t].alone.tier
                       /\ TiersOf(th[t].id) <= 1

C14_Witness ==
    /\ th["t1"].pc = "done" /\ th["t1"].op = "promote"
    /\ th["t1"].res = "Ok" /\ th["t1"].overlap
    /\ th["t2"].pc = "done" /\ th["t2"].op = "demote"
    /\ th["t2"].res = "Ok"
    /\ th["t2"].id \in Entities /\ th["t1"].id # th["t2"].id
    /\ Tier(th["t1"].id) = "med" /\ Tier(th["t2"].id) = "med"

\* ------------------------------------------------- properties of update()
\* C15: an update() call that starts right after an update() call that
\* returned Ok (time may have passed, no other call was made) changes the
\* key set of no tier: it moves no entity.
C15_UpdateIdempotent ==
    [][(pc = "loop" /\ again)
          => /\ DOMAIN low' = DOMAIN low
             /\ DOMAIN med' = DOMAIN med
             /\ DOMAIN high' = DOMAIN high]_vars

C15_Witness ==
    /\ pc = "idle" /\ ret.op = "update" /\ ret.res = "Ok"
    /\ again
    /\ now > 0
    /\ Cardinality(Held) >= 2
    /\ \E e \in Held, f \in Held : ScoreOf(TierMap(Tier(e)), e)
                                     # ScoreOf(TierMap(Tier(f)), f)

\* A loop iteration whose demote or promote failed: the entry it took from
\* med or high has arrived in no tier.
FailedStep(e) ==
    /\ IterStep
    /\ Tier(e) \in {"med", "high"}
    /\ TierNext(e) = "absent"

\* C16: the loop iteration of update() whose demote or promote fails is the
\* last one of the call: update() returns the error of that call from it,
\* and the step changes the tier of no other entity, so the moves made
\* before it stay as they are.
C16_FirstErrorReturned ==
    [][\A e \in Entities :
          FailedStep(e)
             => /\ pc' = "idle"
                /\ ret'.op = "update"
                /\ ret'.res \in {"FailedCompress", "InvalidArgument"}
                /\ \A f \in Entities \ {e} : TierNext(f) = Tier(f)]_vars

C16_Witness ==
    /\ pc = "idle" /\ ret.op = "update" /\ ret.res = "FailedCompress"
    /\ moved
    /\ step.op = "demote" /\ Tier(step.id) = "absent"

\* The AccessToken of the entry that holds e.
TokenOf(e) == TierMap(Tier(e))[e].tok

\* C17: a step that leaves an entity in the cache, in the same tier or moved
\* to another by promote or demote, leaves its AccessToken as it was: the
\* same last-touched time and the same touch frequency.
C17_MoveKeepsToken ==
    [][\A e \in Entities :
          (Tier(e) # "absent" /\ TierNext(e) # "absent")
             => TokenOf(e)' = TokenOf(e)]_vars

C17_Witness ==
    /\ ret.op = "demote" /\ ret.res = "Ok" /\ ret.from = "high"
    /\ Tier(ret.id) = "med"
    /\ TokenOf(ret.id).freq = MaxFreq
    /\ now > 0

\* --------------------------------------------------------- render::init_gpu
\* OnceLock::set that stores over a value already set.
once_set_overwrite(cell, value) == [ok |-> TRUE, cell |-> value]

\* OnceLock::set: stores the value in an empty cell and fails on a set one,
\* which it leaves as it is.
once_set(cell, value) ==
    IF cell = NoGpu
    THEN [ok |-> TRUE, cell |-> value]
    ELSE [ok |-> FALSE, cell |-> cell]

\* Caller c enters init_gpu with its own device and queue, both named c.
init_gpu(c) ==
    /\ gpu[c].pc = "idle"
    /\ gpu' = [gpu EXCEPT ![c] = [pc |-> "device", res |-> "none"]]
    /\ UNCHANGED <<DEVICE, QUEUE, cache_vars, trace_vars, conc_vars,
                   token_vars, eval>>

\* DEVICE.set(device): on failure init_gpu returns AlreadyExists at once.
device_set(c) ==
    /\ gpu[c].pc = "device"
    /\ LET r == once_set(DEVICE, c)
       IN  /\ DEVICE' = r.cell
           /\ gpu' = [gpu EXCEPT ![c] =
                        IF r.ok THEN [pc |-> "queue", res |-> "none"]
                        ELSE [pc |-> "done", res |-> "AlreadyExists"]]
    /\ UNCHANGED <<QUEUE, cache_vars, trace_vars, conc_vars,
                   token_vars, eval>>

\* QUEUE.set(queue), then the return of init_gpu.
queue_set(c) ==
    /\ gpu[c].pc = "queue"
    /\ LET r == once_set(QUEUE, c)
       IN  /\ QUEUE' = r.cell
           /\ gpu' = [gpu EXCEPT ![c] =
                        IF r.ok THEN [pc |-> "done", res |-> "Ok"]
                        ELSE [pc |-> "done", res |-> "AlreadyExists"]]
    /\ UNCHANGED <<DEVICE, cache_vars, trace_vars, conc_vars,
                   token_vars, eval>>

\* Process start: both cells empty, no caller in init_gpu, an empty cache.
InitGpu ==
    /\ DEVICE = NoGpu
    /\ QUEUE = NoGpu
    /\ gpu = [c \in Callers |-> NoInit]
    /\ capacity = <<MaxCap, MaxCap, MaxCap>>
    /\ low = <<>> /\ med = <<>> /\ high = <<>>
    /\ CacheIdle
    /\ NoThreads
    /\ TokenIdle
    /\ eval = NoEval

GpuNext ==
    \/ \E c \in Callers : init_gpu(c)
    \/ \E c \in Callers : device_set(c)
    \/ \E c \in Callers : queue_set(c)

SpecGpu == InitGpu /\ [][GpuNext]_vars

\* The callers whose init_gpu has returned Ok.
GpuOk == {c \in Callers : gpu[c].pc = "done" /\ gpu[c].res = "Ok"}

\* C18: of any number of init_gpu calls at most one returns Ok, and once
\* all calls made have returned exactly one has; every other call returns
\* AlreadyExists; the stored device and queue come from the same call, the
\* one that returns Ok; and no step changes a cell that is set.
C18_InitGpuOnce ==
    /\ [](/\ Cardinality(GpuOk) <= 1
          /\ \A c \in Callers :
                gpu[c].pc = "done"
                   => \/ gpu[c].res = "Ok" /\ DEVICE = c /\ QUEUE = c
                      \/ gpu[c].res = "AlreadyExists" /\ DEVICE # c
                                                       /\ QUEUE # c
          /\ QUEUE # NoGpu => DEVICE = QUEUE
          /\ ((\E c \in Callers : gpu[c].pc # "idle")
                /\ \A c \in Callers : gpu[c].pc \in {"idle", "done"})
                => Cardinality(GpuOk) = 1)
    /\ [][/\ DEVICE # NoGpu => DEVICE' = DEVICE
          /\ QUEUE # NoGpu => QUEUE' = QUEUE]_vars

C18_Witness ==
    /\ \A c \in Callers : gpu[c].pc = "done"
    /\ gpu[2].res = "Ok"
    /\ gpu[1].res = "AlreadyExists"
    /\ DEVICE = 2 /\ QUEUE = 2

\* ------------------------------------------------- AccessToken::increment
\* u32::MAX as <<high half, low half>>.
U32Max == <<Half - 1, Half - 1>>

\* AtomicU32::fetch_add(1): the new value, which wraps around at u32::MAX.
fetch_add_one(v) ==
    IF v[2] < Half - 1 THEN <<v[1], v[2] + 1>>
    ELSE IF v[1] < Half - 1 THEN <<v[1] + 1, 0>>
    ELSE <<0, 0>>

\* a <= b for two 32-bit counters.
U32Leq(a, b) == a[1] < b[1] \/ (a[1] = b[1] /\ a[2] <= b[2])

\* Thread t enters increment() and evaluates Instant::now().
increment(t) ==
    /\ tch[t].pc = "idle"
    /\ tch[t].n < MaxTouches
    /\ tch' = [tch EXCEPT ![t] = [@ EXCEPT !.pc = "store", !.at = now]]
    /\ UNCHANGED <<token, cache_vars, trace_vars, conc_vars, gpu_vars, eval>>

\* self.last_touched.store(Arc::new(..)) with the instant read before.
store(t) ==
    /\ tch[t].pc = "store"
    /\ token' = [token EXCEPT !.last_touched = tch[t].at]
    /\ tch' = [tch EXCEPT ![t] = [@ EXCEPT !.pc = "fetch_add"]]
    /\ UNCHANGED <<cache_vars, trace_vars, conc_vars, gpu_vars, eval>>

\* self.touched_freq.fetch_add(1, Release), then increment() returns.
fetch_add(t) ==
    /\ tch[t].pc = "fetch_add"
    /\ token' = [token EXCEPT !.touched_freq = fetch_add_one(@)]
    /\ tch' = [tch EXCEPT ![t] = [pc |-> "idle", at |-> 0, n |-> @.n + 1]]
    /\ UNCHANGED <<cache_vars, trace_vars, conc_vars, gpu_vars, eval>>

\* A token that has been touched a few times, or nearly u32::MAX times, and
\* never after the start of the clock; an empty cache.
InitTouch ==
    /\ token \in [last_touched : {0},
                  touched_freq : {<<0, f>> : f \in 0..MaxFreq}
                                   \cup {<<Half - 1, Half - 1 - f>> :
                                            f \in 0..MaxFreq}]
    /\ tch = [t \in Threads |-> NoTouch]
    /\ capacity = <<MaxCap, MaxCap, MaxCap>>
    /\ low = <<>> /\ med = <<>> /\ high = <<>>
    /\ CacheIdle
    /\ NoThreads
    /\ GpuReady
    /\ eval = NoEval

TouchNext ==
    \/ \E t \in Threads : increment(t)
    \/ \E t \in Threads : store(t)
    \/ \E t \in Threads : fetch_add(t)
    \/ Tick /\ UNCHANGED <<trace_vars, conc_vars, gpu_vars, token_vars, eval>>

SpecTouch == InitTouch /\ [][TouchNext]_vars

\* C19: touched_freq saturates: no step makes it smaller, and a touch of a
\* token whose touched_freq is u32::MAX leaves it at u32::MAX.
C19_FreqSaturates ==
    [][/\ U32Leq(token.touched_freq, token'.touched_freq)
       /\ token.touched_freq = U32Max => token'.touched_freq = U32Max]_vars

\* C20: last_touched advances monotonically: every instant that a touch
\* stores is at or after the instant it replaces.
C20_LastTouchedMonotone ==
    [][token'.last_touched >= token.last_touched]_vars

\* ------------------------------------------------ calls of pure functions
\* The cache, the threads, the GPU cells and the token at rest, while a
\* function that reads none of them is evaluated.
AtRest ==
    /\ capacity = <<MaxCap, MaxCap, MaxCap>>
    /\ low = <<>> /\ med = <<>> /\ high = <<>>
    /\ CacheIdle
    /\ NoThreads
    /\ GpuReady
    /\ TokenIdle

\* ------------------------------------- score over the whole elapsed range
\* Duration::as_millis is a u128.  A millisecond count below 2^48 is written
\* <<e2, e1, e0>>, its digits in base 65536, the most significant first.
Limbs == {0, 1, Half - 1}
Elapsed == Limbs \X Limbs \X Limbs
MaxScoreFreq == 3

\* `as u32` of a millisecond count: the two low digits are kept.
as_u32_limbs(ms) == <<0, ms[2], ms[3]>>

\* floor(ms / f) by long division, for 1 <= f < 2^15
div_limbs(ms, f) ==
    LET q2 == ms[1] \div f
        n1 == (ms[1] % f) * Half + ms[2]
        q1 == n1 \div f
        n0 == (n1 % f) * Half + ms[3]
        q0 == n0 \div f
    IN  <<q2, q1, q0>>

\* score() of a token touched `elapsed` milliseconds ago, `freq` times
score_limbs(elapsed, freq) ==
    LET since == as_u32_limbs(elapsed)
        f == Max(freq, 1)
    IN  div_limbs(since, f)

\* a <= b for two numbers written in digits
LimbsLeq(a, b) ==
    \/ a[1] < b[1]
    \/ a[1] = b[1] /\ a[2] < b[2]
    \/ a[1] = b[1] /\ a[2] = b[2] /\ a[3] <= b[3]

\* Two tokens of one frequency, touched a and b milliseconds ago.
InitElapsed ==
    /\ eval \in [fn : {"score"},
                 args : [a : Elapsed, b : Elapsed, freq : 0..MaxScoreFreq],
                 out : {<<>>}]
    /\ AtRest

\* score() is evaluated for both tokens.
score_call ==
    /\ eval.fn = "score"
    /\ eval.out = <<>>
    /\ eval' = [eval EXCEPT !.out = <<score_limbs(eval.args.a, eval.args.freq),
                                      score_limbs(eval.args.b, eval.args.freq)>>]
    /\ UNCHANGED <<cache_vars, trace_vars, conc_vars, gpu_vars, token_vars>>

SpecElapsed == InitElapsed /\ [][score_call]_vars

\* C21: score() is floor(elapsed / max(freq, 1)) for every elapsed time and
\* every frequency, and of two tokens with the same frequency the one
\* touched longer ago never has the smaller score.
C21_ScoreIsQuotient ==
    (eval.fn = "score" /\ eval.out # <<>>) =>
        /\ eval.out[1] = div_limbs(eval.args.a, Max(eval.args.freq, 1))
        /\ LimbsLeq(eval.args.a, eval.args.b)
              => LimbsLeq(eval.out[1], eval.out[2])

\* ------------------------------------------------- rebalance convergence
\* Capacities (1, 1, 1); three entities in med, low and high empty; any
\* touch frequencies and any frame formats.  Time may pass between and
\* during the calls, so the scores take any order the frequencies allow.
InitConverge ==
    /\ capacity = <<1, 1, 1>>
    /\ \E tok \in [Entities -> InitTokens], k \in 0..3 :
         /\ \A e \in Entities, f \in Entities :
               (e <= f /\ (e <= k <=> f <= k)) => tok[e].freq <= tok[f].freq
         /\ Placed([e \in Entities |-> IF e <= 3 THEN "med" ELSE "absent"],
                   tok,
                   [e \in Entities |-> IF e <= k THEN GrayImage ELSE RgbaImage])
    /\ Idle

SpecConverge == InitConverge /\ [][TracedNext]_vars

\* An update() call has returned without changing anything: it returned Ok
\* at its first loop iteration (a call that returns an error has removed the
\* entry whose conversion failed).
NoChange ==
    /\ pc = "idle"
    /\ ret.op = "update" /\ ret.res = "Ok"
    /\ ~moved

\* C22: capacities (1, 1, 1), three entities in med: once an update() call
\* makes no change, exactly one entity is in high, at most one is in med and
\* no tier is above its capacity.
C22_Converges ==
    NoChange => /\ len(high) = 1
                /\ len(med) <= 1
                /\ NoOverflow

C22_Witness ==
    /\ NoChange
    /\ len(high) = 1 /\ len(med) = 1 /\ len(low) = 0
    /\ now > 0
    /\ \E e \in DOMAIN high, f \in DOMAIN med :
          high[e].tok.freq # med[f].tok.freq

\* ------------------------------------------------ a cache that was just built
\* TieredCache::with_capacity: the capacities as given, three empty maps.
with_capacity ==
    /\ capacity \in (1..MaxCap) \X (1..MaxCap) \X (1..MaxCap)
    /\ low = <<>> /\ med = <<>> /\ high = <<>>
    /\ Idle

\* Every public operation of the cache, called in any order.
SpecEmpty == with_capacity /\ [][Next]_vars

\* The same, where each operation keeps being called.
FairEmpty ==
    /\ SpecEmpty
    /\ WF_cache_vars(\E entity \in Entities : demote(entity))
    /\ WF_cache_vars(\E entity \in Entities : promote(entity))
    /\ WF_cache_vars(update_call)
    /\ WF_cache_vars(update_iter)

\* C23: the cache accepts a completed frame: in a run from a new cache in
\* which the operations of the cache keep being called, some entity comes
\* to be held in a tier.
C23_FrameAccepted == <>(Held # {})

\* --------------------------------------- numbers beyond the model checker's
\* A natural number is the sequence of its digits in base 256, the least
\* significant first, without leading zeros (so 0 is <<>>): a u32 has at
\* most 4 digits, a usize of a 64-bit target at most 8.
Byte == 256
UsizeDigits == 8

RECURSIVE nat(_)
nat(n) == IF n = 0 THEN <<>> ELSE <<n % Byte>> \o nat(n \div Byte)

\* the value of a number of at most three digits
int(a) ==
    (IF Len(a) >= 1 THEN a[1] ELSE 0)
    + (IF Len(a) >= 2 THEN a[2] * Byte ELSE 0)
    + (IF Len(a) >= 3 THEN a[3] * Byte * Byte ELSE 0)

RECURSIVE trim(_)
trim(a) ==
    IF a # <<>> /\ a[Len(a)] = 0 THEN trim(SubSeq(a, 1, Len(a) - 1)) ELSE a

\* a * m + carry, for a small m
RECURSIVE scale(_, _, _)
scale(a, m, carry) ==
    IF a = <<>>
    THEN nat(carry)
    ELSE LET t == Head(a) * m + carry
         IN  <<t % Byte>> \o scale(Tail(a), m, t \div Byte)

\* a + b + carry
RECURSIVE plus(_, _, _)
plus(a, b, carry) ==
    IF a = <<>> /\ b = <<>>
    THEN nat(carry)
    ELSE LET x == IF a = <<>> THEN 0 ELSE Head(a)
             y == IF b = <<>> THEN 0 ELSE Head(b)
             t == x + y + carry
         IN  <<t % Byte>> \o plus(IF a = <<>> THEN a ELSE Tail(a),
                                  IF b = <<>> THEN b ELSE Tail(b),
                                  t \div Byte)

\* a * b
RECURSIVE times(_, _)
times(a, b) ==
    IF b = <<>>
    THEN <<>>
    ELSE trim(plus(scale(a, Head(b), 0), <<0>> \o times(a, Tail(b)), 0))

\* the low `digits` digits of a: what a wrapping operation of that width keeps
wrap(a, digits) ==
    trim(IF Len(a) > digits THEN SubSeq(a, 1, digits) ELSE a)

\* usize multiplication: the wrapped product, and whether it overflowed
usize_mul(a, b) ==
    [val |-> wrap(times(a, b), UsizeDigits),
     overflow |-> Len(times(a, b)) > UsizeDigits]

\* the quotient and the remainder of a by a small m
RECURSIVE divide(_, _)
divide(a, m) ==
    IF a = <<>>
    THEN [q |-> <<>>, r |-> 0]
    ELSE LET upper == divide(Tail(a), m)
             n == upper.r * Byte + Head(a)
         IN  [q |-> <<n \div m>> \o upper.q, r |-> n % m]

\* u32::div_ceil
div_ceil(a, m) ==
    LET d == divide(a, m)
    IN  IF d.r > 0 THEN plus(trim(d.q), nat(1), 0) ELSE trim(d.q)

\* u32::max(self, 1)
max_1(a) == IF a = <<>> THEN nat(1) ELSE a

\* ------------------------------------------------- RawImage, byte by byte
\* The bytes of test buffers: n bytes that run through Samples from `seed`.
Samples == <<0, 55, 200, 255>>
Seeds == 0..(Len(Samples) - 1)
Pattern(seed, n) == [i \in 1..n |-> Samples[((seed + i) % Len(Samples)) + 1]]

\* The widths and heights of test images: 0..MaxDim, and 2^31.
MaxDim == 2
Big == <<0, 0, 0, 128>>
Dims == {nat(d) : d \in 0..MaxDim} \cup {Big}

\* An arithmetic overflow panics in a build with overflow checks (a debug
\* build) and wraps in one without (a release build); `checks` says which.
Builds == BOOLEAN
Panic == [ok |-> FALSE, err |-> "panic"]
Failed(err) == [ok |-> FALSE, err |-> err]
Done(val) == [ok |-> TRUE, val |-> val]

Image(format, width, height, data) ==
    [kind |-> "raw", format |-> format, width |-> width, height |-> height,
     data |-> data]

\* width as usize * height as usize * format.bytes_per_pixel()
byte_count(format, width, height) ==
    LET pixels == usize_mul(width, height)
        bytes == usize_mul(pixels.val, nat(bytes_per_pixel(format)))
    IN  [val |-> bytes.val, overflow |-> pixels.overflow \/ bytes.overflow]

\* RawImage::from_bytes
from_bytes(format, width, height, bytes, checks) ==
    LET expected == byte_count(format, width, height)
    IN  IF expected.overflow /\ checks
        THEN Panic
        ELSE IF nat(Len(bytes)) # expected.val
        THEN Failed("InvalidArgument")
        ELSE Done(Image(format, width, height, bytes))

\* RawImage::zeroed, for a buffer that fits into memory
zeroed(format, width, height, checks) ==
    LET size == byte_count(format, width, height)
    IN  IF size.overflow /\ checks
        THEN Panic
        ELSE Done(Image(format, width, height,
                        [i \in 1..int(size.val) |-> 0]))

\* RawImage::ensure_geometry
ensure_geometry(a, b) ==
    IF a.width # b.width \/ a.height # b.height
    THEN Failed("Dimensionmismatch")
    ELSE IF a.format # b.format
    THEN Failed("InvalidArgument")
    ELSE Done(<<>>)

\* u8 addition that wraps around
wrapping_add(a, b) == (a + b) % Byte

\* u8::saturating_add
saturating_add(a, b) == IF a + b > Byte - 1 THEN Byte - 1 ELSE a + b

Min(a, b) == IF a <= b THEN a ELSE b

\* RawImage::overlay
overlay(a, b, checks) ==
    LET geometry == ensure_geometry(a, b)
        data == [i \in 1..Min(Len(a.data), Len(b.data)) |->
                    saturating_add(a.data[i], b.data[i])]
    IN  IF ~geometry.ok
        THEN geometry
        ELSE from_bytes(a.format, a.width, a.height, data, checks)

\* RawImage::size_down, for an image whose width and height are small
size_down(image, checks) ==
    LET bpp == bytes_per_pixel(image.format)
        new_width == div_ceil(max_1(image.width), 2)
        new_height == div_ceil(max_1(image.height), 2)
        size == byte_count(image.format, new_width, new_height)
        src == image.data
        w == int(image.width)
        h == int(image.height)
        nw == int(new_width)
        \* the source byte that (dy, dx) adds to channel c of pixel (x, y)
        idx(y, x, c, dy, dx) == ((y * 2 + dy) * w + (x * 2 + dx)) * bpp + c
        inside(y, x, dy, dx) == y * 2 + dy < h /\ x * 2 + dx < w
        near == {0, 1} \X {0, 1}
        sum(y, x, c) ==
            LET term(d) == IF inside(y, x, d[1], d[2])
                           THEN src[idx(y, x, c, d[1], d[2]) + 1] ELSE 0
            IN  term(<<0, 0>>) + term(<<0, 1>>) + term(<<1, 0>>) + term(<<1, 1>>)
        count(y, x) == Cardinality({d \in near : inside(y, x, d[1], d[2])})
        out == [k \in 1..int(size.val) |->
                  LET c == (k - 1) % bpp
                      x == ((k - 1) \div bpp) % nw
                      y == ((k - 1) \div bpp) \div nw
                  IN  (sum(y, x, c) \div Max(count(y, x), 1)) % Byte]
    IN  IF size.overflow /\ checks
        THEN Panic
        ELSE Done(Image(image.format, new_width, new_height, out))

\* ------------------------------------------------------- the four codecs
\* CompressionStrategy: Raw, Zstd(level), Qoi, Lz4
ZstdLevels == {0, 1, 22, 255}
Strategies ==
    {[codec |-> c, level |-> 0] : c \in {"Raw", "Qoi", "Lz4"}}
        \cup {[codec |-> "Zstd", level |-> l] : l \in ZstdLevels}

\* qoi::encode_to_vec(data, width, height): the channel count is
\* data.len() / (width * height); an image without pixels, with more than
\* 400 000 000 pixels (here: one whose pixel count has more than three
\* digits), with a length that is no multiple of the pixel count or with a
\* channel count other than 3 or 4 is refused.  The encoded stream carries
\* the header and the pixels.
qoi_encode(data, width, height) ==
    LET pixels == times(width, height)
        n == int(pixels)
    IN  IF pixels = <<>> \/ Len(pixels) > 3
        THEN Failed("FailedCompress")
        ELSE IF Len(data) % n # 0 \/ Len(data) \div n \notin {3, 4}
        THEN Failed("FailedCompress")
        ELSE Done([container |-> "qoi",
                   header |-> [width |-> width, height |-> height,
                               channels |-> Len(data) \div n],
                   bytes |-> data])

\* RawImage::compress.  lz4_flex::block::compress_prepend_size writes the
\* length of the input before the block; zstd::encode_all writes a frame.
RawImage_compress(image, strategy) ==
    LET payload ==
          CASE strategy.codec = "Raw" ->
                 Done([container |-> "bytes", bytes |-> image.data])
            [] strategy.codec = "Qoi" ->
                 qoi_encode(image.data, image.width, image.height)
            [] strategy.codec = "Lz4" ->
                 Done([container |-> "lz4", size |-> Len(image.data),
                       bytes |-> image.data])
            [] strategy.codec = "Zstd" ->
                 Done([container |-> "zstd", bytes |-> image.data])
    IN  IF ~payload.ok
        THEN payload
        ELSE Done([kind |-> "compressed", format |-> image.format,
                   width |-> image.width, height |-> image.height,
                   codec |-> strategy, payload |-> payload.val])

\* From<RawImage> for CompressedImage
CompressedImage_from(image) ==
    [kind |-> "compressed", format |-> image.format,
     width |-> image.width, height |-> image.height,
     codec |-> [codec |-> "Raw", level |-> 0],
     payload |-> [container |-> "bytes", bytes |-> image.data]]

\* The decoder of a codec on a payload: the decoded bytes, or the failure of
\* a payload that another codec wrote or whose size prefix is wrong.
decode(codec, payload) ==
    CASE codec = "Raw" -> Done(payload.bytes)
      [] codec = "Qoi" ->
           IF payload.container = "qoi"
           THEN Done(payload.bytes) ELSE Failed("FailedDecompress")
      [] codec = "Lz4" ->
           IF payload.container = "lz4" /\ payload.size = Len(payload.bytes)
           THEN Done(payload.bytes) ELSE Failed("FailedDecompress")
      [] codec = "Zstd" ->
           IF payload.container = "zstd"
           THEN Done(payload.bytes) ELSE Failed("FailedDecompress")

\* CompressedImage::decompress
CompressedImage_decompress(image, checks) ==
    LET expected == byte_count(image.format, image.width, image.height)
        decoded == decode(image.codec.codec, image.payload)
        header == image.payload.header
    IN  IF expected.overflow /\ checks
        THEN Panic
        ELSE IF ~decoded.ok
        THEN decoded
        ELSE IF image.codec.codec = "Qoi"
                /\ (header.width # image.width \/ header.height # image.height)
        THEN Failed("InvalidArgument")
        ELSE IF image.codec.codec = "Qoi"
                /\ header.channels # bytes_per_pixel(image.format)
        THEN Failed("InvalidArgument")
        ELSE IF nat(Len(decoded.val)) # expected.val
        THEN Failed("InvalidArgument")
        ELSE from_bytes(image.format, image.width, image.height,
                        decoded.val, checks)

\* ------------------------------------------- calls of the image functions
\* A call that has not returned yet.
Pending == [ok |-> FALSE, err |-> "pending"]

\* A buffer of that geometry has at most 65535 bytes.
Buildable(format, width, height) ==
    Len(byte_count(format, width, height).val) <= 2

\* The images that from_bytes makes of test buffers in a build.
Images(checks) ==
    {r.val : r \in {x \in {from_bytes(t[1], t[2], t[3],
                                      Pattern(t[4], int(byte_count(t[1], t[2], t[3]).val)),
                                      checks) :
                              t \in {u \in PixelFormats \X Dims \X Dims \X Seeds :
                                        Buildable(u[1], u[2], u[3])}} :
                       x.ok}}

\* The lengths of the buffers handed to from_bytes.
MaxLen == MaxDim * MaxDim * 4 + 1

Calls(checks) ==
    [fn : {"from_bytes"},
     args : [format : PixelFormats, width : Dims, height : Dims,
             bytes : {Pattern(0, n) : n \in 0..MaxLen}, checks : {checks}],
     out : {Pending}]
    \cup [fn : {"zeroed"},
          args : {[format |-> t[1], width |-> t[2], height |-> t[3],
                   checks |-> checks] :
                     t \in {u \in PixelFormats \X Dims \X Dims :
                               Buildable(u[1], u[2], u[3])}},
          out : {Pending}]
    \cup [fn : {"overlay"},
          args : [a : Images(checks), b : Images(checks), checks : {checks}],
          out : {Pending}]
    \cup [fn : {"size_down"},
          args : [image : {i \in Images(checks) :
                              Len(i.width) <= 1 /\ Len(i.height) <= 1},
                  checks : {checks}],
          out : {Pending}]
    \cup [fn : {"compress"},
          args : [image : Images(checks), strategy : Strategies,
                  checks : {checks}],
          out : {Pending}]

InitImage ==
    /\ eval \in UNION {Calls(checks) : checks \in Builds}
    /\ AtRest

\* The calls return.
from_bytes_call ==
    /\ eval.fn = "from_bytes"
    /\ eval.out = Pending
    /\ eval' = [eval EXCEPT !.out =
                   from_bytes(eval.args.format, eval.args.width,
                              eval.args.height, eval.args.bytes,
                              eval.args.checks)]
    /\ UNCHANGED <<cache_vars, trace_vars, conc_vars, gpu_vars, token_vars>>

zeroed_call ==
    /\ eval.fn = "zeroed"
    /\ eval.out = Pending
    /\ eval' = [eval EXCEPT !.out =
                   zeroed(eval.args.format, eval.args.width,
                          eval.args.height, eval.args.checks)]
    /\ UNCHANGED <<cache_vars, trace_vars, conc_vars, gpu_vars, token_vars>>

overlay_call ==
    /\ eval.fn = "overlay"
    /\ eval.out = Pending
    /\ eval' = [eval EXCEPT !.out =
                   overlay(eval.args.a, eval.args.b, eval.args.checks)]
    /\ UNCHANGED <<cache_vars, trace_vars, conc_vars, gpu_vars, token_vars>>

size_down_call ==
    /\ eval.fn = "size_down"
    /\ eval.out = Pending
    /\ eval' = [eval EXCEPT !.out =
                   size_down(eval.args.image, eval.args.checks)]
    /\ UNCHANGED <<cache_vars, trace_vars, conc_vars, gpu_vars, token_vars>>

compress_call ==
    /\ eval.fn = "compress"
    /\ eval.out = Pending
    /\ eval' = [eval EXCEPT !.out =
                   RawImage_compress(eval.args.image, eval.args.strategy)]
    /\ UNCHANGED <<cache_vars, trace_vars, conc_vars, gpu_vars, token_vars>>

\* decompress is called on what compress returned.
decompress_call ==
    /\ eval.fn = "compress"
    /\ eval.out # Pending
    /\ eval.out.ok
    /\ eval' = [fn |-> "decompress",
                args |-> [image |-> eval.out.val, source |-> eval.args.image,
                          checks |-> eval.args.checks],
                out |-> CompressedImage_decompress(eval.out.val,
                                                   eval.args.checks)]
    /\ UNCHANGED <<cache_vars, trace_vars, conc_vars, gpu_vars, token_vars>>

ImageNext ==
    \/ from_bytes_call
    \/ zeroed_call
    \/ overlay_call
    \/ size_down_call
    \/ compress_call
    \/ decompress_call

SpecImage == InitImage /\ [][ImageNext]_vars

\* width * height * bytes_per_pixel(format), the number itself
area_bytes(format, width, height) ==
    times(times(width, height), nat(bytes_per_pixel(format)))

Consistent(image) ==
    nat(Len(image.data)) = area_bytes(image.format, image.width, image.height)

\* C24: from_bytes returns InvalidArgument exactly when the length of the
\* bytes differs from width * height * bytes_per_pixel and succeeds
\* otherwise, and every image that from_bytes, zeroed, overlay, size_down
\* or decompress returns has a data length equal to that product.
C24_LengthMatchesGeometry ==
    /\ (eval.fn = "from_bytes" /\ eval.out # Pending) =>
          LET differs == nat(Len(eval.args.bytes))
                            # area_bytes(eval.args.format, eval.args.width,
                                         eval.args.height)
          IN  IF differs THEN eval.out = Failed("InvalidArgument")
                         ELSE eval.out.ok
    /\ (eval.fn \in {"from_bytes", "zeroed", "overlay", "size_down",
                     "decompress"} /\ eval.out.ok)
          => Consistent(eval.out.val)

\* C25: for every strategy and every RawImage whose length matches its
\* geometry, of any format and any geometry, compress succeeds, and
\* decompress of what it returned gives back the image: the same width,
\* height, format and bytes.
C25_RoundTrip ==
    /\ (eval.fn = "compress" /\ eval.out # Pending
          /\ Consistent(eval.args.image))
          => eval.out.ok
    /\ (eval.fn = "decompress" /\ Consistent(eval.args.source))
          => (eval.out.ok /\ eval.out.val = eval.args.source)

\* C26: whenever the length of the bytes that the codec decoded differs from
\* width * height * bytes_per_pixel of the compressed image, decompress
\* returns InvalidArgument; an image that it returns holds the decoded bytes
\* as they are.
C26_MismatchIsError ==
    eval.fn = "decompress" =>
        LET decoded == eval.args.image.payload.bytes
            image == eval.args.image
        IN  /\ nat(Len(decoded))
                   # area_bytes(image.format, image.width, image.height)
                 => eval.out = Failed("InvalidArgument")
            /\ eval.out.ok => eval.out.val.data = decoded

\* The two images of an overlay call have the same width, height and format.
SameGeometry ==
    /\ eval.args.a.width = eval.args.b.width
    /\ eval.args.a.height = eval.args.b.height
    /\ eval.args.a.format = eval.args.b.format

\* C27: overlay of two images with the same geometry and format returns an
\* image with that geometry and format in which every byte is
\* min(a + b, 255) of the two bytes at its position.
C27_OverlaySaturates ==
    (eval.fn = "overlay" /\ eval.out # Pending /\ SameGeometry) =>
        /\ eval.out.ok
        /\ eval.out.val.width = eval.args.a.width
        /\ eval.out.val.height = eval.args.a.height
        /\ eval.out.val.format = eval.args.a.format
        /\ Len(eval.out.val.data) = Len(eval.args.a.data)
        /\ \A i \in 1..Len(eval.args.a.data) :
              eval.out.val.data[i]
                 = Min(eval.args.a.data[i] + eval.args.b.data[i], 255)

C27_Witness ==
    /\ eval.fn = "overlay" /\ eval.out # Pending /\ SameGeometry
    /\ eval.out.ok
    /\ \E i \in 1..Len(eval.args.a.data) :
          /\ eval.args.a.data[i] + eval.args.b.data[i] > 255
          /\ eval.args.a.data[i] < 255 /\ eval.args.b.data[i] < 255
    /\ \E i \in 1..Len(eval.args.a.data) :
          /\ eval.args.a.data[i] + eval.args.b.data[i] < 255
          /\ eval.args.a.data[i] > 0 /\ eval.args.b.data[i] > 0

\* C28: size_down returns an image of width ceil(width / 2) and height
\* ceil(height / 2) for every geometry; a width or height of 0 gives 0.
C28_HalvesRoundedUp ==
    (eval.fn = "size_down" /\ eval.out # Pending) =>
        /\ eval.out.ok
        /\ int(eval.out.val.width) = (int(eval.args.image.width) + 1) \div 2
        /\ int(eval.out.val.height) = (int(eval.args.image.height) + 1) \div 2

\* ------------------------------------------------ upload and readback
\* wgpu::COPY_BYTES_PER_ROW_ALIGNMENT
COPY_BYTES_PER_ROW_ALIGNMENT == 256

\* The widths of uploaded images: 0..MaxDim, and two whose RGBA rows fill
\* one stride exactly and spill into a second one.
TextureWidths == {nat(d) : d \in 0..MaxDim} \cup {nat(64), nat(65)}
TextureHeights == {nat(d) : d \in 0..MaxDim}

\* What the device leaves in the bytes of a staging buffer that no copy wrote.
Paddings == {0, 255}

\* RawImage::to_texture: create_texture_with_data stores the rows of the
\* image, in order, in a 2-D texture of the wgpu format.
to_texture(image, usage) ==
    [kind |-> "texture", format |-> to_wgpu(image.format),
     width |-> image.width, height |-> image.height, dimension |-> "D2",
     usage |-> usage \cup {"COPY_DST"}, texels |-> image.data]

\* a stride that is not rounded up
unpadded_bytes_per_row(bytes_per_row) == bytes_per_row

\* padded_bytes_per_row of read_texture_into_raw
padded_bytes_per_row(bytes_per_row) ==
    LET alignment == COPY_BYTES_PER_ROW_ALIGNMENT
    IN  IF bytes_per_row = 0
        THEN alignment
        ELSE ((bytes_per_row + alignment - 1) \div alignment) * alignment

\* copy_texture_to_buffer into a buffer of stride * height bytes: row r of
\* the texture starts at byte r * stride; the bytes between the rows keep
\* what the buffer held.
copy_texture_to_buffer(texture, bytes_per_row, stride, height, pad) ==
    [k \in 1..(stride * height) |->
        LET r == (k - 1) \div stride
            c == (k - 1) % stride
        IN  IF c < bytes_per_row
            THEN texture.texels[r * bytes_per_row + c + 1] ELSE pad]

\* mapped.chunks(row_pitch).take(height), the first bytes_per_row bytes of
\* each chunk appended to pixels
strip_rows(mapped, bytes_per_row, row_pitch, height) ==
    [k \in 1..(bytes_per_row * height) |->
        mapped[((k - 1) \div bytes_per_row) * row_pitch
                  + ((k - 1) % bytes_per_row) + 1]]

\* read_texture_into_raw, byte by byte; the device refuses a copy whose
\* stride is no multiple of the alignment.  The result carries the stride
\* and the mapped buffer along.
readback(texture, pad, checks) ==
    LET format == from_wgpu(texture.format)
        width == int(texture.width)
        height == int(texture.height)
        bytes_per_row == bytes_per_pixel(format) * width
        stride == padded_bytes_per_row(bytes_per_row)
        mapped == copy_texture_to_buffer(texture, bytes_per_row, stride,
                                         height, pad)
        pixels == strip_rows(mapped, bytes_per_row, stride, height)
        image == from_bytes(format, texture.width, texture.height, pixels,
                            checks)
    IN  IF texture.dimension # "D2" \/ "COPY_SRC" \notin texture.usage
           \/ format = "None"
        THEN Panic
        ELSE IF width = 0 \/ height = 0
        THEN zeroed(format, texture.width, texture.height, checks)
        ELSE IF stride % COPY_BYTES_PER_ROW_ALIGNMENT # 0 \/ ~image.ok
        THEN Panic
        ELSE [ok |-> TRUE, val |-> image.val, stride |-> stride,
              mapped |-> mapped]

\* The images that are uploaded: what from_bytes makes of test buffers.
Uploads ==
    {from_bytes(t[1], t[2], t[3],
                Pattern(t[4], bytes_per_pixel(t[1]) * int(t[2]) * int(t[3])),
                TRUE).val :
        t \in PixelFormats \X TextureWidths \X TextureHeights \X Seeds}

\* An image is uploaded (From<&RawImage> for Texture) and read back.
InitReadback ==
    /\ eval \in [fn : {"to_texture"},
                 args : [image : Uploads, pad : Paddings, checks : Builds],
                 out : {Pending}]
    /\ AtRest

to_texture_call ==
    /\ eval.fn = "to_texture"
    /\ eval.out = Pending
    /\ eval' = [eval EXCEPT !.out =
                   Done(to_texture(eval.args.image,
                                   {"TEXTURE_BINDING", "COPY_SRC"}))]
    /\ UNCHANGED <<cache_vars, trace_vars, conc_vars, gpu_vars, token_vars>>

readback_call ==
    /\ eval.fn = "to_texture"
    /\ eval.out # Pending
    /\ eval' = [fn |-> "read_texture_into_raw",
                args |-> [texture |-> eval.out.val, source |-> eval.args.image,
                          pad |-> eval.args.pad, checks |-> eval.args.checks],
                out |-> readback(eval.out.val, eval.args.pad,
                                 eval.args.checks)]
    /\ UNCHANGED <<cache_vars, trace_vars, conc_vars, gpu_vars, token_vars>>

ReadbackNext ==
    \/ to_texture_call
    \/ readback_call

SpecReadback == InitReadback /\ [][ReadbackNext]_vars

\* C29: reading back an uploaded image returns the image, byte for byte,
\* for every width; the rows lie in the staging buffer at a stride that is
\* the row byte count rounded up to a multiple of the alignment, and the
\* result is the first row-byte-count bytes of each of the height rows, in
\* row order.
C29_ReadbackReproduces ==
    eval.fn = "read_texture_into_raw" =>
        LET source == eval.args.source
            row == bytes_per_pixel(source.format) * int(source.width)
            rows == int(source.height)
            stride == eval.out.stride
        IN  /\ eval.out.ok
            /\ eval.out.val = source
            /\ (row > 0 /\ rows > 0) =>
                  /\ stride % COPY_BYTES_PER_ROW_ALIGNMENT = 0
                  /\ stride >= row
                  /\ stride - row < COPY_BYTES_PER_ROW_ALIGNMENT
                  /\ Len(eval.out.mapped) = stride * rows
                  /\ \A r \in 0..(rows - 1), c \in 0..(row - 1) :
                        eval.out.val.data[r * row + c + 1]
                           = eval.out.mapped[r * stride + c + 1]

C29_Witness ==
    /\ eval.fn = "read_texture_into_raw"
    /\ eval.out.ok
    /\ eval.args.source.width = nat(65)
    /\ eval.args.source.format = "Rgba8Unorm"
    /\ int(eval.args.source.height) >= 2
    /\ eval.args.pad = 255
    /\ eval.out.stride = 2 * COPY_BYTES_PER_ROW_ALIGNMENT

\* C30: when an update() call that nothing interleaves with has returned
\* Ok and med is below its capacity, low is empty.
C30_LowDrainsIntoMed ==
    (pc = "idle" /\ ret.op = "update" /\ ret.res = "Ok"
        /\ len(med) < capacity[2])
       => len(low) = 0

\* ------------------------------------------- further properties of the cache
\* C31: the remove that follows a successful contains_key in promote or
\* demote finds the entry: a thread that is about to unwrap the result of a
\* remove still has its key in the tier, under any interleaving.
C31_RemoveFindsEntry ==
    \A t \in Threads :
        /\ (th[t].pc = "rm_med" => th[t].id \in DOMAIN med)
        /\ (th[t].pc = "rm_high" => th[t].id \in DOMAIN high)
        /\ (th[t].pc = "rm_low" /\ th[t].call = "promote")
              => th[t].id \in DOMAIN low

\* The entries of every entity other than e are the same after the step.
OthersUnchanged(e) ==
    \A f \in Entities \ {e} :
        /\ TierNext(f) = Tier(f)
        /\ f \in DOMAIN low => low'[f] = low[f]
        /\ f \in DOMAIN med => med'[f] = med[f]
        /\ f \in DOMAIN high => high'[f] = high[f]

\* C32: a promote of an entry of low or a demote of an entry of med whose
\* conversion fails returns the error of the codec and leaves the entity in
\* no tier; every other entity is unchanged.
C32_FailedConversionDrops ==
    [][(/\ pc = "idle" /\ pc' = "idle" /\ now' = now
        /\ ret'.op \in {"demote", "promote"}
        /\ ret'.res \notin {"Ok", "NotFound"})
          => /\ ret'.op = "demote"
                  => (Tier(ret'.id) = "med" /\ ret'.res = "FailedCompress")
             /\ ret'.op = "promote"
                  => (/\ Tier(ret'.id) = "low"
                      /\ ret'.res \in {"FailedDecompress", "InvalidArgument"})
             /\ TierNext(ret'.id) = "absent"
             /\ OthersUnchanged(ret'.id)]_vars

C32_Witness ==
    /\ pc = "idle"
    /\ ret.op = "demote" /\ ret.res = "FailedCompress" /\ ret.from = "med"
    /\ Tier(ret.id) = "absent"
    /\ Cardinality(Held) >= 2

\* C33: from with_capacity on, under any calls of promote, demote and
\* update(), the three tiers are empty, every promote and demote has
\* returned NotFound and every update() has returned Ok.
C33_NothingIsEverHeld ==
    /\ low = <<>> /\ med = <<>> /\ high = <<>>
    /\ ret.op \in {"promote", "demote"} => ret.res = "NotFound"
    /\ ret.op = "update" => ret.res = "Ok"
    /\ step = NoStep

C33_Witness ==
    /\ pc = "idle"
    /\ ret.op = "update" /\ ret.res = "Ok"
    /\ now > 0
    /\ Held = {}

\* C34: a call promote(id) made while id is in high returns NotFound and
\* leaves low, med and high as they were.
C34_PromoteInHighNotFound ==
    [][(/\ pc = "idle" /\ pc' = "idle" /\ now' = now
        /\ ret'.op = "promote"
        /\ ret'.id \in DOMAIN high)
          => /\ ret'.res = "NotFound"
             /\ low' = low /\ med' = med /\ high' = high]_vars

C34_Witness ==
    /\ pc = "idle"
    /\ ret.op = "promote" /\ ret.res = "NotFound" /\ ret.from = "high"
    /\ ret.id \in DOMAIN high
    /\ low # <<>> /\ med # <<>>

chain(snaps) ==
    IF len(high) > capacity[3]
    THEN [name |-> "a", op |-> "demote", cands |-> max_by(snaps.high, now)]
    ELSE IF len(med) > capacity[2]
    THEN [name |-> "b", op |-> "demote", cands |-> max_by(snaps.med, now)]
    ELSE IF len(low) > capacity[1]
    THEN [name |-> "c", op |-> "demote", cands |-> max_by(snaps.low, now)]
    ELSE IF len(high) < capacity[3]
    THEN [name |-> "d", op |-> "promote", cands |-> min_by(snaps.med, now)]
    ELSE IF len(med) < capacity[2]
    THEN [name |-> "e", op |-> "promote", cands |-> min_by(snaps.low, now)]
    ELSE [name |-> "none", op |-> "none", cands |-> {}]

\* The head of a loop iteration in thread t: high_snapshot, med_snapshot and
\* low_snapshot are collected.
take_snapshots(t) ==
    LET c == th[t]
    IN  /\ c.pc = "select"
        /\ th' = [th EXCEPT ![t] =
                    [c EXCEPT !.pc = "chain",
                              !.val = [high |-> snapshot(high),
                                       med |-> snapshot(med),
                                       low |-> snapshot(low)]]]
        /\ UNCHANGED <<cache_vars, trace_vars, held0, evicted, gpu_vars,
                       token_vars, eval>>

\* The chain of the iteration in thread t: the branch its conditions select
\* and the entry picked from the snapshot, whose promote or demote then runs
\* access by access; with nothing picked `changed` stays false and update()
\* returns Ok.
run_chain(t) ==
    LET c == th[t]
        r == chain(c.val)
    IN  /\ c.pc = "chain"
        /\ IF r.cands = {}
           THEN th' = [th EXCEPT ![t] = [c EXCEPT !.pc = "done",
                                                  !.val = <<>>,
                                                  !.res = "Ok"]]
           ELSE \E entity \in r.cands :
                  th' = [th EXCEPT ![t] = [c EXCEPT !.call = r.op,
                                                    !.id = entity,
                                                    !.val = <<>>,
                                                    !.pc = "low?"]]
        /\ UNCHANGED <<cache_vars, trace_vars, held0, evicted, gpu_vars,
                       token_vars, eval>>

\* At most MaxConcHeld RGBA frames in any tiers, no two of them touched the
\* same number of times, room for one entry in low and in high and for up
\* to MaxCap in med, and no thread in a call yet.
InitRace ==
    /\ capacity \in {<<1, c, 1>> : c \in 1..MaxCap}
    /\ \E place \in [Entities -> Tiers] :
         /\ Cardinality({e \in Entities : place[e] # "absent"}) <= MaxConcHeld
         /\ Placed(place,
                   [e \in Entities |->
                      [touched |-> 0, freq |-> (e - 1) % (MaxFreq + 1)]],
                   [e \in Entities |-> RgbaImage])
    /\ CacheIdle
    /\ th = [t \in Threads |-> NoCall]
    /\ held0 = (DOMAIN low) \cup (DOMAIN med) \cup (DOMAIN high)
    /\ evicted = {}
    /\ GpuReady
    /\ TokenIdle
    /\ eval = NoEval

\* The steps of thread t, which calls update() once.
update_thread(t) ==
    \/ update_begin(t)
    \/ take_snapshots(t)
    \/ run_chain(t)
    \/ contains_key(t)
    \/ remove_entry(t)
    \/ insert_entry(t)

RaceNext ==
    \/ \E t \in Threads : update_begin(t)
    \/ \E t \in Threads : take_snapshots(t)
    \/ \E t \in Threads : run_chain(t)
    \/ \E t \in Threads : contains_key(t)
    \/ \E t \in Threads : remove_entry(t)
    \/ \E t \in Threads : insert_entry(t)

SpecRace == InitRace /\ [][RaceNext]_vars

\* Each thread is scheduled again and again while it has a step to take.
FairRace == SpecRace /\ \A t \in Threads : WF_vars(update_thread(t))

\* C36: with two threads that each call update() once and are scheduled
\* fairly, both calls eventually return, Ok or an error.  A behaviour in
\* which a call aborts, or has removed an entry that another thread took
\* first, is not held against the property.
C36_BothUpdatesReturn ==
    <>(\/ \A t \in Threads : th[t].pc = "done"
       \/ \E t \in Threads : th[t].ub)

\* C37: when an update() that ran alone has returned Ok and high holds
\* fewer entries than its capacity, med is empty.
C37_OkLeavesNoneToPromote ==
    (/\ pc = "idle"
     /\ ret.op = "update" /\ ret.res = "Ok"
     /\ len(high) < capacity[3])
        => med = <<>>

C37_Witness ==
    /\ pc = "idle"
    /\ ret.op = "update" /\ ret.res = "Ok"
    /\ hist.promote
    /\ len(high) < capacity[3]
    /\ high # <<>>
    /\ med = <<>>

\* C38: a call promote(id) or demote(id), successful or not, leaves every
\* entity other than id in its tier with its token and its payload, and no
\* step at all changes the capacities.
C38_CallTouchesOneEntity ==
    [][/\ capacity' = capacity
       /\ (/\ pc = "idle" /\ pc' = "idle" /\ now' = now
           /\ ret'.op \in {"demote", "promote"})
             => OthersUnchanged(ret'.id)]_vars

C38_Witness ==
    /\ pc = "idle"
    /\ ret.op = "demote" /\ ret.res = "Ok" /\ ret.from = "high"
    /\ Tier(ret.id) = "med"
    /\ \E f \in Entities \ {ret.id} : Tier(f) = "med"
    /\ \E f \in Entities \ {ret.id} : Tier(f) = "high"

\* ---------------------------------------------- textures that promote uploads
\* The two assertions and the expect at the head of read_texture_into_raw:
\* the texture is 2-D, its usage contains COPY_SRC and its format is one
\* that PixelFormat::from_wgpu knows.
readback_asserts(texture) ==
    /\ texture.dimension = "D2"
    /\ "COPY_SRC" \in texture.usage
    /\ from_wgpu(texture.format) # "None"

\* C39: every texture that a step puts into high (promote out of med,
\* called directly or by update()) passes the assertions of the readback
\* that a later demote makes.
C39_PromotedTextureReadable ==
    [][\A e \in (DOMAIN high') \ (DOMAIN high) :
          /\ e \in DOMAIN med
          /\ high'[e].img.kind = "texture"
          /\ readback_asserts(high'[e].img)
          /\ from_wgpu(high'[e].img.format) = med[e].img.format]_vars

C39_Witness ==
    /\ pc = "idle"
    /\ ret.op = "promote" /\ ret.res = "Ok" /\ ret.from = "med"
    /\ ret.id \in DOMAIN high
    /\ high[ret.id].img.format = "R8Unorm"
    /\ readback_asserts(high[ret.id].img)

====
